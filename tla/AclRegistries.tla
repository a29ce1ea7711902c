----------------------------- MODULE AclRegistries -----------------------------
(***************************************************************************)
(* The registries of anti-corruption adapters (acl/): a VersionedACL-      *)
(* Registry, which inherits the plain map of BaseACLRegistry and keeps its *)
(* own map of versions beside it, and an ACLRegistry that imports the      *)
(* adapters of a ContextACLRegistry.  A version is its number, major,      *)
(* minor and patch, with or without a pre-release part, which              *)
(* compareVersions leaves out.                                             *)
(***************************************************************************)
EXTENDS Naturals

CONSTANTS Contexts,  \* names of contexts
          Numbers,   \* the numbers of versions, with their order as naturals
          Pres,      \* the pre-release parts, "" among them
          MaxAdapters \* bound: adapters made

RegistriesAssumption == Numbers \subseteq Nat /\ "" \in Pres /\ MaxAdapters \in Nat

Versions == [num : Numbers, pre : Pres]
None == [num |-> 0, pre |-> "none"]

VARIABLES versioned, \* of each context and version: the adapter, 0 for none
          latest,    \* of each context: the latest version
          plain,     \* of each context: the adapter in the inherited map
          global,    \* of each context: the adapter in the ACLRegistry
          local,     \* of each context: the adapter in the ContextACLRegistry
          made,      \* adapters made so far
          imported, skipped \* what the last import returned

vars == <<versioned, latest, plain, global, local, made, imported, skipped>>
resultVars == <<imported, skipped>>

Init ==
  /\ versioned = [c \in Contexts |-> [v \in Versions |-> 0]]
  /\ latest = [c \in Contexts |-> None]
  /\ plain = [c \in Contexts |-> 0]
  /\ global = [c \in Contexts |-> 0] /\ local = [c \in Contexts |-> 0]
  /\ made = 0 /\ imported = {} /\ skipped = {}

Make == made < MaxAdapters /\ made' = made + 1

----------------------------------------------------------------------------
Newer_Older(v, w) == w = None \/ v.num < w.num
Newer(v, w) == w = None \/ v.num > w.num

RegisterVersioned(c, v) ==
  /\ Make
  /\ versioned' = [versioned EXCEPT ![c][v] = made']
  /\ latest' = [latest EXCEPT ![c] = IF Newer(v, @) THEN v ELSE @]
  /\ plain' = [plain EXCEPT ![c] = made']
  /\ UNCHANGED <<global, local, resultVars>>

\* register, inherited, knows nothing of versions.
RegisterPlain(c) ==
  /\ Make
  /\ plain' = [plain EXCEPT ![c] = made']
  /\ UNCHANGED <<versioned, latest, global, local, resultVars>>

\* get(context): of the latest version; getRequired(context), inherited: of the plain map.
Get(c) == IF latest[c] = None THEN 0 ELSE versioned[c][latest[c]]
GetRequired(c) == plain[c]

----------------------------------------------------------------------------
RegisterGlobal(c) ==
  /\ Make
  /\ global' = [global EXCEPT ![c] = made']
  /\ UNCHANGED <<versioned, latest, plain, local, resultVars>>

RegisterLocal(c) ==
  /\ Make
  /\ local' = [local EXCEPT ![c] = made']
  /\ UNCHANGED <<versioned, latest, plain, global, resultVars>>

Exported == {c \in Contexts : local[c] # 0}
Conflicts == {c \in Exported : global[c] # 0}
Taken(overwrite) == IF overwrite = "yes" THEN Exported ELSE Exported \ Conflicts

ImportFromContext(overwrite) ==
  /\ Exported # {}
  /\ global' = [c \in Contexts |-> IF c \in Taken(overwrite) THEN local[c] ELSE global[c]]
  /\ imported' = Taken(overwrite) /\ skipped' = Exported \ Taken(overwrite)
  /\ UNCHANGED <<versioned, latest, plain, local, made>>

Next ==
  \/ \E c \in Contexts :
       \/ \E v \in Versions : RegisterVersioned(c, v)
       \/ RegisterPlain(c) \/ RegisterGlobal(c) \/ RegisterLocal(c)
  \/ \E overwrite \in {"yes", "no"} : ImportFromContext(overwrite)
Spec == Init /\ [][Next]_vars

----------------------------------------------------------------------------
(* Properties. *)

\* Every variable has its type: what the registries hold are adapters that were made.
TypeOK ==
  /\ versioned \in [Contexts -> [Versions -> 0..made]]
  /\ latest \in [Contexts -> Versions \union {None}]
  /\ plain \in [Contexts -> 0..made] /\ global \in [Contexts -> 0..made] /\ local \in [Contexts -> 0..made]
  /\ made \in 0..MaxAdapters /\ imported \subseteq Contexts /\ skipped \subseteq Contexts

\* In whatever order versions are registered, the latest version of a context is a registered
\* one and none that is registered has a greater number.
LatestIsGreatest ==
  \A c \in Contexts :
    /\ latest[c] # None => Get(c) # 0 /\ GetRequired(c) # 0
    /\ \A v \in Versions : versioned[c][v] # 0 => latest[c] # None /\ latest[c].num >= v.num

\* importFromContext replaces exactly the adapters it reports as imported; a conflict it skips
\* keeps its adapter.
ImportReportsWhatItDid ==
  [][made' = made => \A c \in Contexts : global'[c] = IF c \in imported' THEN local[c] ELSE global[c]]_vars
=============================================================================
