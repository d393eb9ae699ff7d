---------------------------- MODULE MC_OrgDeploy ----------------------------
(* Two orgs with a bundle of two files, a field, a profile and a class.    *)
EXTENDS OrgDeploy

File(b, e) == [base |-> b, ext |-> e]
InBundle(e) == <<Dir("unpackaged"), Dir("unpackaged"), Dir("lwc"), Dir("card"), File("card", e)>>
Field == <<Dir("unpackaged"), Dir("objects"), Dir("Account"), Dir("fields"), File("Size", ".field-meta.xml")>>
Profile == <<Dir("unpackaged"), Dir("profiles"), File("Admin", ".profile")>>
Class == <<Dir("unpackaged"), Dir("classes"), File("Old", ".cls")>>
MCFiles == {InBundle(".js"), InBundle(".html"), Field, Profile, Class}

MCSource == [f \in MCFiles |-> IF f = Class THEN 0 ELSE 1]
MCTarget == [f \in MCFiles |-> IF f \in {Class, Profile} THEN 1
                               ELSE IF f = InBundle(".js") THEN 2 ELSE 0]
MCTypeDirMap == [objects |-> "CustomObject", profiles |-> "Profile",
                 classes |-> "ApexClass", lwc |-> "LightningComponentBundle"]

Select(type, name) == [type |-> type, members |-> {name}]
MCRequests ==
  {<<Select("LightningComponentBundle", <<Dir("card")>>),
     Select("CustomField", <<Dir("Account"), Dir("Size")>>),
     Select("ApexClass", <<Dir("Old")>>)>>}
=============================================================================
