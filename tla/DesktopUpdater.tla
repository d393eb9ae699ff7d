--------------------------- MODULE DesktopUpdater ---------------------------
(***************************************************************************)
(* The updater of the desktop shell: desktop/src/updater.ts and the card   *)
(* of the overview page that drives it (UpdateCenter.tsx).                 *)
(*                                                                         *)
(* A click runs check, download and install one after the other. The three *)
(* are handlers of the main process over the same module variables, and    *)
(* the card disables its button by the status they publish; between the    *)
(* answer of the check and the start of the download the status enables it *)
(* again, so that two clicks can be under way.                             *)
(***************************************************************************)
EXTENDS Naturals, FiniteSets

CONSTANTS Clicks,     \* clicks on the button
          Newest,     \* bound: releases published, the running one is 0
          Signed,     \* releases that come with a checksum
          Compatible  \* releases with an artifact for this platform

ASSUME NewestAssumption == Newest \in Nat
ASSUME ReleaseAssumption == Signed \subseteq 1 .. Newest /\ Compatible \subseteq 1 .. Newest

VARIABLES
  published,  \* the newest release on GitHub
  release,    \* the release the last check has found, 0 before
  status,     \* the status published to the window
  path,       \* updatePath: the release whose artifact it names, 0 before
  disk,       \* content of the artifact of each release in the updates directory
  click,      \* progress of each click and the release it downloads
  installed,  \* what was handed to the installer
  overlapped  \* whether a click came while another was under way

updaterVars == <<published, release, status, path, disk, click, installed, overlapped>>

None == [of |-> 0, content |-> "none"]
Working == {"checking", "downloading", "installing"}
Idle == [at |-> "idle", of |-> 0, sums |-> 0]
Statuses == {"idle", "available", "current", "ready", "error"} \cup Working

UpdaterInit ==
  /\ published \in 0 .. Newest /\ release = 0 /\ status = "idle" /\ path = 0
  /\ disk = [r \in 1 .. Newest |-> "none"]
  /\ click = [c \in Clicks |-> Idle]
  /\ installed = None /\ overlapped = FALSE

Move(c, at) == click' = [click EXCEPT ![c].at = at]
At(c, at) == click[c].at = at /\ installed = None

Publish ==
  /\ published < Newest
  /\ published' = published + 1
  /\ UNCHANGED <<release, status, path, disk, click, installed, overlapped>>

\* The button is enabled while nothing is being worked on.
Click(c) ==
  /\ At(c, "idle") /\ status \notin Working
  /\ status' = "checking"
  /\ Move(c, "check")
  /\ overlapped' = (overlapped \/ \E d \in Clicks \ {c} : click[d].at \notin {"idle", "over"})
  /\ UNCHANGED <<published, release, path, disk, installed>>

\* A release is newer, and has an artifact or not; the card goes on only if the
\* answer of its own check was "available".
CheckAnswers(c) ==
  /\ At(c, "check")
  /\ release' = published
  /\ status' = IF published = 0 THEN "current" ELSE IF published \in Compatible THEN "available" ELSE "error"
  /\ Move(c, IF status' = "available" THEN "checked" ELSE "over")
  /\ UNCHANGED <<published, path, disk, installed, overlapped>>

\* A failure that is logged and not published.
FailsQuietly(c) ==
  /\ \E at \in {"check", "fetch", "write", "sums"} : At(c, at)
  /\ Move(c, "over")
  /\ UNCHANGED <<published, release, status, path, disk, installed, overlapped>>

\* A check or a download that fails, at any of its steps, publishes the error.
Fails(c) ==
  /\ \E at \in {"check", "fetch", "write", "sums"} : At(c, at)
  /\ status' = "error"
  /\ Move(c, "over")
  /\ UNCHANGED <<published, release, path, disk, installed, overlapped>>

\* download looks at what the module knows by now.
Download(c) ==
  /\ At(c, "checked")
  /\ IF status = "error"
     THEN Move(c, "over") /\ UNCHANGED status
     ELSE IF release \notin Compatible
     THEN Move(c, "over") /\ status' = "error"
     ELSE /\ click' = [click EXCEPT ![c].at = "fetch", ![c].of = release]
          /\ status' = "downloading"
  /\ UNCHANGED <<published, release, path, disk, installed, overlapped>>

\* Each chunk publishes the progress, whatever was published in between.
Chunk(c) ==
  /\ At(c, "fetch") /\ status # "downloading"
  /\ status' = "downloading"
  /\ UNCHANGED <<published, release, path, disk, click, installed, overlapped>>

BeginWrite(c) ==
  /\ At(c, "fetch")
  /\ path' = click[c].of
  /\ disk' = [disk EXCEPT ![click[c].of] = "partial"]
  /\ Move(c, "write")
  /\ UNCHANGED <<published, release, status, installed, overlapped>>

\* Only a checksum tells a damaged artifact. It is that of the release the
\* module knows when the artifact has been written.
EndWrite(c, content) ==
  /\ At(c, "write")
  /\ disk' = [disk EXCEPT ![click[c].of] = content]
  /\ IF release \in Signed
     THEN click' = [click EXCEPT ![c].at = "sums", ![c].sums = release] /\ UNCHANGED status
     ELSE Move(c, "ready") /\ status' = "ready"
  /\ UNCHANGED <<published, release, path, installed, overlapped>>

\* The comparison with the digest of the file left out.
MatchesAnything(c) == click[c].sums = path

\* The file that is compared is the one `updatePath` names by now.
Matches(c) == click[c].sums = path /\ disk[path] = "good"

Verify(c) ==
  /\ At(c, "sums")
  /\ status' = IF Matches(c) THEN "ready" ELSE "error"
  /\ Move(c, IF Matches(c) THEN "ready" ELSE "over")
  /\ UNCHANGED <<published, release, path, disk, installed, overlapped>>

\* The card calls install when its own download was ready; the handler refuses
\* unless the status is still "ready". Then the application quits.
Install(c) ==
  /\ At(c, "ready")
  /\ IF path # 0 /\ status = "ready"
     THEN /\ status' = "installing"
          /\ installed' = [of |-> path, content |-> disk[path]]
     ELSE UNCHANGED <<status, installed>>
  /\ Move(c, "over")
  /\ UNCHANGED <<published, release, path, disk, overlapped>>

Handler(c) ==
  \/ CheckAnswers(c) \/ Fails(c) \/ Download(c) \/ Chunk(c) \/ BeginWrite(c)
  \/ \E content \in {"good", "damaged"} : EndWrite(c, content)
  \/ Verify(c) \/ Install(c)

UpdaterNext == Publish \/ \E c \in Clicks : Click(c) \/ Handler(c)

UpdaterSpec == UpdaterInit /\ [][UpdaterNext]_updaterVars

\* Requests are answered or fail; nobody has to click.
Progress(c) ==
  \/ CheckAnswers(c) \/ Fails(c) \/ Download(c) \/ BeginWrite(c)
  \/ \E content \in {"good", "damaged"} : EndWrite(c, content)
  \/ Verify(c) \/ Install(c)
UpdaterFairness == \A c \in Clicks : WF_updaterVars(Progress(c))
UpdaterFairSpec == UpdaterSpec /\ UpdaterFairness

-----------------------------------------------------------------------------
UpdaterTypeOK ==
  /\ {published, release, path} \subseteq 0 .. Newest
  /\ status \in Statuses
  /\ disk \in [1 .. Newest -> {"none", "partial", "good", "damaged"}]
  /\ \A c \in Clicks : click[c].of \in 0 .. Newest /\ click[c].sums \in 0 .. Newest

\* What is handed to the installer is a whole artifact, and the very one whose
\* checksum was compared if its release has one, though a release may be
\* published at any moment. Excepted are clicks that overlapped: one of them
\* may replace the release or the file the other is about to verify or install.
InstalledIsVerified ==
  /\ UpdaterTypeOK
  /\ installed # None /\ ~overlapped =>
       /\ installed.content \in {"good", "damaged"}
       /\ installed.of \in Signed => installed.content = "good"

\* The button never stays disabled: what a click has begun ends in a status that
\* enables it or in the installation, even when clicks overlapped.
UpdateSettles == status \in Working ~> status \notin Working \/ installed # None
=============================================================================
