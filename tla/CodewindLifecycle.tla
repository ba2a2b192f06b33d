------------------------- MODULE CodewindLifecycle -------------------------
(***************************************************************************)
(* What the operator promises about one Codewind and the cluster-wide      *)
(* permissions granted for it, with no worker, no queue, no cache and no   *)
(* failure in sight:                                                       *)
(*   - a Codewind is named once, by a workspace id no other ever had;      *)
(*   - cluster role bindings are granted only under the guard of the       *)
(*     finalizer, and only to a named Codewind;                            *)
(*   - it counts as served once its bindings are granted, and never while  *)
(*     it is being deleted;                                                *)
(*   - a guarded Codewind vanishes after its deletion was asked for and    *)
(*     after its last binding was revoked, never before.                   *)
(***************************************************************************)
EXTENDS Naturals

CONSTANTS CRs, Permissions

VARIABLES
    phase,    \* "absent", "requested", "named", "guarded" or "served"
    ending,   \* has its deletion been asked for
    ws,       \* its workspace id, 0 before it is named
    granted,  \* <<workspace id, binding>> of every permission in force
    used      \* workspace ids given out so far

vars == <<phase, ending, ws, granted, used>>

Guarded(c) == phase[c] \in {"guarded", "served"}

Set(c, p) == phase' = [phase EXCEPT ![c] = p]

Init ==
    /\ phase = [c \in CRs |-> "absent"]
    /\ ending = [c \in CRs |-> FALSE]
    /\ ws = [c \in CRs |-> 0]
    /\ granted = {} /\ used = {}

Request(c) ==
    /\ phase[c] = "absent" /\ Set(c, "requested")
    /\ UNCHANGED <<ending, ws, granted, used>>

Name(c) ==
    /\ phase[c] = "requested" /\ Set(c, "named")
    /\ ws'[c] \in Nat \ (used \cup {0})
    /\ ws' = [ws EXCEPT ![c] = ws'[c]]
    /\ used' = used \cup {ws'[c]}
    /\ UNCHANGED <<ending, granted>>

Guard(c) ==
    /\ phase[c] = "named" /\ Set(c, "guarded")
    /\ UNCHANGED <<ending, ws, granted, used>>

Grant(c, b) ==
    /\ Guarded(c)
    /\ granted' = granted \cup {<<ws[c], b>>}
    /\ UNCHANGED <<phase, ending, ws, used>>

Serve(c) ==
    /\ phase[c] = "guarded" /\ ~ending[c]
    /\ \A b \in Permissions : <<ws[c], b>> \in granted
    /\ Set(c, "served")
    /\ UNCHANGED <<ending, ws, granted, used>>

AskDeletion(c) ==
    /\ Guarded(c) /\ ~ending[c]
    /\ ending' = [ending EXCEPT ![c] = TRUE]
    /\ UNCHANGED <<phase, ws, granted, used>>

Revoke(c, b) ==
    /\ ending[c]
    /\ granted' = granted \ {<<ws[c], b>>}
    /\ UNCHANGED <<phase, ending, ws, used>>

(* What was never guarded goes at once, what was guarded only with nothing *)
(* left in force for it.                                                   *)
Vanish(c) ==
    /\ phase[c] \in {"requested", "named"} \/ ending[c]
    /\ \A g \in granted : g[1] # ws[c]
    /\ Set(c, "absent")
    /\ ending' = [ending EXCEPT ![c] = FALSE]
    /\ ws' = [ws EXCEPT ![c] = 0]
    /\ UNCHANGED <<granted, used>>

Next ==
    \E c \in CRs :
        \/ Request(c) \/ Name(c) \/ Guard(c) \/ Serve(c)
        \/ AskDeletion(c) \/ Vanish(c)
        \/ \E b \in Permissions : Grant(c, b) \/ Revoke(c, b)

Spec == Init /\ [][Next]_vars
=============================================================================
