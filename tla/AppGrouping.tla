------------------------------ MODULE AppGrouping ------------------------------
(***************************************************************************)
(* Which application a process is counted under                            *)
(* (crates/telemetry/src/identity.rs, collect_cgroups in procfs.rs).  A    *)
(* process in a scope gets the scope's desktop entry or an opaque key, one *)
(* without a scope its parent's; a second pass moves the opaque scopes     *)
(* under a desktop-resolved ancestor.                                      *)
(*                                                                         *)
(* A snapshot is read process by process, so its parent links are any      *)
(* function: parents may be missing (0) or, over reused process ids, form  *)
(* a cycle.  With the samples of TelemetrySampling, with which it shares   *)
(* no state, the grouping makes the process figures a client is shown.     *)
(***************************************************************************)
EXTENDS TelemetrySampling, FiniteSets

CONSTANTS
  Processes,         \* 1..n, in the order of the directory listing
  Desktops,          \* scopes a desktop entry is found for (desktop_id_for_scope)
  Opaques            \* scopes without one

(* Finitely many processes; 0 is no process and "none" no scope. *)
ASSUME GroupingAssumption ==
  /\ IsFiniteSet(Processes) /\ Processes \subseteq Nat \ {0}
  /\ "none" \notin Desktops \cup Opaques

VARIABLES
  ppid,              \* process -> its parent, or 0
  scope,             \* process -> the scope of its cgroup, or "none"
  group,             \* process -> [key, by]: application_key, grouping_resolution
  bound,             \* scope -> the application its cgroup is bound to (collect_cgroups)
  pass               \* what has been done: "read", "resolved", "adopted", "done"

groupingVars == <<ppid, scope, group, bound, pass>>

(* opaque_unknown_key and the keys made of a scope. *)
OwnKey(p) == <<"process", p>>
KeyOf(s) == <<"scope", s>>
DesktopKeys == {KeyOf(s) : s \in Desktops}

UnknownOf(p) == [key |-> OwnKey(p), by |-> "Unknown"]

GroupingInit ==
  /\ ppid \in [Processes -> Processes \cup {0}]
  /\ scope \in [Processes -> Desktops \cup Opaques \cup {"none"}]
  /\ group = [p \in Processes |-> UnknownOf(p)]
  /\ bound = [s \in {} |-> 0] /\ pass = "read"

(* direct: a scope's own assignment. *)
Direct(p) ==
  [key |-> KeyOf(scope[p]), by |-> IF scope[p] \in Desktops THEN "DesktopEntryExact" ELSE "CgroupScope"]

(* Faulty variant of Inherited: an unknown parent is inherited from as well. *)
InheritedAlways(p, parent) == [key |-> parent.key, by |-> "InheritedParent"]

(* A parent's assignment is taken over, unless it is unknown. *)
Inherited(p, parent) ==
  IF parent.by = "Unknown" THEN UnknownOf(p) ELSE [key |-> parent.key, by |-> "InheritedParent"]

(* resolve_process; Resolve[S] assigns to every process while S are being visited. *)
Resolve[S \in SUBSET Processes] ==
  [p \in Processes |->
     IF scope[p] # "none" THEN Direct(p)
     ELSE IF p \in S \/ ppid[p] = 0 THEN UnknownOf(p)
     ELSE Inherited(p, Resolve[S \cup {p}][ppid[p]])]

(* The first pass of resolve_grouping. *)
FirstPass ==
  /\ pass = "read" /\ pass' = "resolved"
  /\ group' = Resolve[{}]
  /\ UNCHANGED <<ppid, scope, bound>>

(* nearest_desktop_resolved_ancestor, 0 if the walk up meets none, or an unknown one, first. *)
Nearest[k \in 0..Cardinality(Processes) + 1] ==
  [p \in Processes |->
     IF k = 0 \/ ppid[p] = 0 THEN 0
     ELSE IF group[ppid[p]].by = "DesktopEntryExact" THEN ppid[p]
     ELSE IF group[ppid[p]].by = "Unknown" THEN 0
     ELSE Nearest[k - 1][ppid[p]]]

(* Faulty variant of NearestDesktop: only the parent itself is looked at. *)
NearestDesktopParent(p) == Nearest[1][p]

NearestDesktop(p) == Nearest[Cardinality(Processes) + 1][p]

Adopts(p) == group[p].by = "CgroupScope" /\ NearestDesktop(p) # 0

(* One round of the second pass: the adoptions are collected, then made together. *)
SecondPass ==
  /\ pass = "resolved"
  /\ IF \E p \in Processes : Adopts(p)
     THEN /\ group' = [p \in Processes |->
                         IF Adopts(p) THEN [key |-> group[NearestDesktop(p)].key,
                                            by |-> "InheritedParent"]
                         ELSE group[p]]
          /\ UNCHANGED pass
     ELSE pass' = "adopted" /\ UNCHANGED group
  /\ UNCHANGED <<ppid, scope, bound>>

Earliest(S) == CHOOSE p \in S : \A q \in S : p <= q
Members(s) == {p \in Processes : scope[p] = s}

(* Faulty variant of Binding: the first member's key, whatever it was resolved by. *)
BindingOfFirst(s) == group[Earliest(Members(s))].key

(* A desktop-resolved member's key is preferred to the first member's. *)
Binding(s) ==
  LET desktop == {p \in Members(s) : group[p].key \in DesktopKeys}
  IN group[Earliest(IF desktop # {} THEN desktop ELSE Members(s))].key

(* collect_cgroups: every scope once. *)
BindScopes ==
  /\ pass = "adopted" /\ pass' = "done"
  /\ bound' = [s \in {scope[p] : p \in Processes} \ {"none"} |-> Binding(s)]
  /\ UNCHANGED <<ppid, scope, group>>

GroupingNext == FirstPass \/ SecondPass \/ BindScopes

GroupingSpec == GroupingInit /\ [][GroupingNext]_groupingVars
-----------------------------------------------------------------------------
(* Properties. *)

(* T contains the parents of its members. *)
Upward(T) == \A q \in T : ppid[q] \in T \cup {0}

(* p and the processes above it: what every such set around p contains. *)
Line(p) == {q \in Processes : \A T \in SUBSET Processes : p \in T /\ Upward(T) => q \in T}

(* Type correctness; what is unknown is a group of its own.                  *)
GroupingTypeOK ==
  /\ pass \in {"read", "resolved", "adopted", "done"}
  /\ \A p \in Processes :
       /\ group[p].by \in {"Unknown", "InheritedParent", "CgroupScope", "DesktopEntryExact"}
       /\ group[p].by = "Unknown" <=> group[p].key = OwnKey(p)

(* A process is counted only under an application that is its own or one     *)
(* above it: its key is its scope's or that of a process above it, however   *)
(* the listing was ordered, and over cycles and missing parents; a process   *)
(* that stays under its own opaque scope has no desktop application above it,*)
(* and an unknown one has no scope above it (identity.rs resolve_grouping).  *)
KeysComeFromAbove ==
  pass = "done" => \A p \in Processes :
    /\ group[p].by # "Unknown" => \E q \in Line(p) : KeyOf(scope[q]) = group[p].key
    /\ group[p].by = "CgroupScope" => \A q \in Line(p) : scope[q] \notin Desktops
    /\ group[p].by = "Unknown" => \A q \in Line(p) : scope[q] = "none"

(* The traffic of a scope goes to a desktop application whenever one of its  *)
(* processes was resolved to one, so a transient scope never splits the      *)
(* application off that started it (procfs.rs collect_cgroups).              *)
ScopesFollowDesktop ==
  pass = "done" => \A s \in DOMAIN bound :
    (\E p \in Members(s) : group[p].key \in DesktopKeys) => bound[s] \in DesktopKeys

ProcessFiguresSpec == SamplingSpec /\ GroupingSpec

(* Process figures are real: each belongs to one process, under an application    *)
(* of its own or above it, and a complete sample misses nobody.                   *)
ProcessFiguresAreReal ==
  /\ SamplingTypeOK /\ WholeProcess /\ CpuIsOwn /\ CompleteMissesNobody
  /\ GroupingTypeOK /\ KeysComeFromAbove /\ ScopesFollowDesktop
=============================================================================
