---------------------------- MODULE AuthProvider ----------------------------
(***************************************************************************)
(* server/src/sf/auth.ts, for one org: the table of access tokens that the *)
(* direct API path spends.  auth() answers from the table, joins the       *)
(* acquisition that is parked there, or starts one, which boots an         *)
(* `sf org display --verbose`.  expire() and reset() drop the entry        *)
(* whether or not an acquisition is parked on it, and an acquisition that  *)
(* ends replaces whatever entry it finds.                                  *)
(*                                                                         *)
(* A token is the org session it belongs to.  The callers are the requests *)
(* of module FastPath; here they ask and forget as they like.              *)
(***************************************************************************)
EXTENDS Integers

CONSTANTS Reqs,        \* callers of auth()
          Acqs,        \* bound: acquisitions running at once, a set of numbers
          MaxSession,  \* bound: sessions of the org
          MaxLapses    \* bound: drops after which nothing lapses or is reset

ASSUME AcqsAssumption == Acqs \subseteq Nat \ {0}
ASSUME AuthBounds == MaxSession \in Nat \ {0} /\ MaxLapses \in Nat

VARIABLES
  entry,       \* tokens.get(org)
  secretsOff,  \* now < secretsUnavailableUntil
  acq,         \* [Acqs -> Free, 0 before `org display` has read, or its token]
  on,          \* the acquisition a caller awaits
  given,       \* what auth() has returned to each caller
  session,     \* the session the org accepts
  starts,      \* acquisitions started
  drops        \* times the entry was dropped or lapsed

authVars == <<entry, secretsOff, acq, on, given, session, starts, drops>>

Free == -1
NotAsked == -2
Waiting == -1
Sessions == 1 .. MaxSession

\* tok = 0 without a usable token; busy is the acquisition behind inFlight;
\* cool while failedUntil lies ahead.
Entry == [tok : 0 .. MaxSession, busy : Acqs \cup {0}, cool : BOOLEAN]
Empty == [tok |-> 0, busy |-> 0, cool |-> FALSE]
Cooling == [tok |-> 0, busy |-> 0, cool |-> TRUE]
Holding(tok) == [tok |-> tok, busy |-> 0, cool |-> FALSE]

AuthTypeOK ==
  /\ entry \in Entry
  /\ secretsOff \in BOOLEAN
  /\ acq \in [Acqs -> Free .. MaxSession]
  /\ on \in [Reqs -> Acqs \cup {0}]
  /\ given \in [Reqs -> NotAsked .. MaxSession]
  /\ session \in Sessions
  /\ starts \in Nat
  /\ drops \in Nat

AuthInit ==
  /\ entry = Empty
  /\ secretsOff = FALSE
  /\ acq = [a \in Acqs |-> Free]
  /\ on = [c \in Reqs |-> 0]
  /\ given = [c \in Reqs |-> NotAsked]
  /\ session = 1
  /\ starts = 0
  /\ drops = 0

-----------------------------------------------------------------------------
(* auth().                                                                 *)

Return(c, tok) ==
  /\ given' = [given EXCEPT ![c] = tok]
  /\ UNCHANGED <<entry, acq, on, starts>>

Park(a) == [tok |-> 0, busy |-> a, cool |-> FALSE]

Start(c, a) ==
  /\ acq[a] = Free
  /\ \A b \in Acqs : acq[b] = Free => a <= b
  /\ acq' = [acq EXCEPT ![a] = 0]
  /\ entry' = Park(a)
  /\ starts' = starts + 1
  /\ given' = [given EXCEPT ![c] = Waiting]
  /\ on' = [on EXCEPT ![c] = a]

Auth(c) ==
  /\ given[c] = NotAsked
  /\ \/ entry.tok # 0 /\ Return(c, entry.tok)
     \/ /\ entry.tok = 0 /\ entry.busy # 0
        /\ given' = [given EXCEPT ![c] = Waiting]
        /\ on' = [on EXCEPT ![c] = entry.busy]
        /\ UNCHANGED <<entry, acq, starts>>
     \/ /\ entry.tok = 0 /\ entry.busy = 0 /\ (entry.cool \/ secretsOff)
        /\ Return(c, 0)
     \/ /\ entry.tok = 0 /\ entry.busy = 0 /\ ~entry.cool /\ ~secretsOff
        /\ \E a \in Acqs : Start(c, a)
  /\ UNCHANGED <<secretsOff, session, drops>>

-----------------------------------------------------------------------------
(* acquire().                                                              *)

\* `sf org display` reads the token of the session of the moment.
DisplayReads(a) ==
  /\ acq[a] = 0
  /\ acq' = [acq EXCEPT ![a] = session]
  /\ UNCHANGED <<entry, secretsOff, on, given, session, starts, drops>>

\* Everyone who awaits acquisition a is answered, and a is over.
Resolve(a, tok) ==
  /\ acq' = [acq EXCEPT ![a] = Free]
  /\ given' = [c \in Reqs |-> IF given[c] = Waiting /\ on[c] = a THEN tok ELSE given[c]]
  /\ on' = [c \in Reqs |-> IF on[c] = a THEN 0 ELSE on[c]]
  /\ UNCHANGED <<session, starts, drops>>

AcquireOk(a) ==
  /\ acq[a] \in Sessions
  /\ entry' = Holding(acq[a])
  /\ secretsOff' = FALSE
  /\ Resolve(a, acq[a])

\* The command fails, or the CLI withholds the token.
AcquireFails(a) ==
  /\ acq[a] # Free
  /\ entry' = Cooling
  /\ secretsOff' \in {secretsOff, TRUE}
  /\ Resolve(a, 0)

-----------------------------------------------------------------------------
(* Drops, lapses and the org.                                              *)

\* expire(), and the token half of reset().
Drop ==
  /\ entry' = Empty
  /\ drops' = drops + 1

Reset ==
  /\ drops < MaxLapses
  /\ Drop
  /\ secretsOff' = FALSE
  /\ UNCHANGED <<acq, on, given, session, starts>>

\* TOKEN_TTL_MS or FAILURE_COOLDOWN_MS passes: the entry counts for nothing.
Lapse ==
  /\ drops < MaxLapses
  /\ entry.tok # 0 \/ entry.cool
  /\ Drop
  /\ UNCHANGED <<secretsOff, acq, on, given, session, starts>>

\* SECRETS_BACKOFF_MS passes.
SecretsLapse ==
  /\ secretsOff
  /\ secretsOff' = FALSE
  /\ UNCHANGED <<entry, acq, on, given, session, starts, drops>>

\* The org ends the session; the next `org display` gets a new one.
SessionEnds ==
  /\ session < MaxSession
  /\ session' = session + 1
  /\ UNCHANGED <<entry, secretsOff, acq, on, given, starts, drops>>

AcqNext(a) == DisplayReads(a) \/ AcquireOk(a) \/ AcquireFails(a)
Surroundings == Reset \/ Lapse \/ SecretsLapse \/ SessionEnds

\* expire(), called by anyone at any time; its caller may then ask again.
Expire ==
  /\ Drop
  /\ \/ UNCHANGED given
     \/ \E c \in Reqs : given[c] \in Sessions /\ given' = [given EXCEPT ![c] = NotAsked]
  /\ UNCHANGED <<secretsOff, acq, on, session, starts>>

AuthNext ==
  \/ \E c \in Reqs : Auth(c)
  \/ \E a \in Acqs : AcqNext(a)
  \/ Surroundings \/ Expire

AuthSpec == AuthInit /\ [][AuthNext]_authVars

-----------------------------------------------------------------------------
(* Properties.                                                             *)

\* Whoever awaits a token awaits an acquisition that runs, whatever was dropped
\* meanwhile, and so does the entry.
NobodyStranded ==
  /\ \A c \in Reqs : given[c] = Waiting => on[c] # 0 /\ acq[on[c]] # Free
  /\ entry.busy # 0 => acq[entry.busy] # Free

\* Boots of the CLI are paid for by drops: however requests, expirations and
\* failures interleave, `org display` runs at most once more often than the
\* entry was dropped or lapsed.  No burst of requests makes a burst of boots.
DisplayBudget == starts <= drops + 1
=============================================================================
