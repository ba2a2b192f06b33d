------------------------- MODULE RegistrationPromise -------------------------
(***************************************************************************)
(* What a reconciler takes a call of AddCodewindToKeycloak and of          *)
(* AddCodewindRealmToKeycloak for. One workspace is registered at a time;  *)
(* a call may do all of its work or nothing of it before it fails, and     *)
(* returns the key of the client only once the workspace is registered. A  *)
(* call for one workspace leaves the others alone, and nothing is undone.  *)
(* Operator and CodewindController rely on this; KeycloakRegistration      *)
(* shows that the single requests keep it.                                 *)
(***************************************************************************)
CONSTANTS Workspaces, NoWorkspace

VARIABLES
    active,     \* the workspace of the call that is under way
    returned,   \* has that call returned a key
    registered, \* workspaces that are registered in the realm
    complete,   \* workspaces recorded as complete
    realm       \* does the realm exist

vars == <<active, returned, registered, complete, realm>>

Init ==
    /\ active = NoWorkspace /\ returned = FALSE
    /\ registered = {} /\ complete = {}
    /\ realm = FALSE

Call(w) ==
    /\ active = NoWorkspace /\ w \notin complete
    /\ active' = w
    /\ UNCHANGED <<returned, registered, complete, realm>>

(* The call has done what it is for, if nobody knows yet. *)
Work ==
    /\ active # NoWorkspace /\ realm
    /\ registered' = registered \cup {active}
    /\ UNCHANGED <<active, returned, complete, realm>>

ReturnKey ==
    /\ active \in registered /\ ~returned
    /\ returned' = TRUE
    /\ UNCHANGED <<active, registered, complete, realm>>

(* It fails, or its pass does later; what it has done stays. *)
Fail ==
    /\ active # NoWorkspace
    /\ active' = NoWorkspace /\ returned' = FALSE
    /\ registered' \in {registered, IF realm THEN registered \cup {active} ELSE registered}
    /\ UNCHANGED <<complete, realm>>

Complete ==
    /\ returned
    /\ complete' = complete \cup {active}
    /\ active' = NoWorkspace /\ returned' = FALSE
    /\ UNCHANGED <<registered, realm>>

(* Either controller makes the realm, and may fail right after. *)
MakeRealm ==
    /\ ~realm /\ realm' = TRUE
    /\ active' \in {active, NoWorkspace}
    /\ returned' = (returned /\ active' # NoWorkspace)
    /\ UNCHANGED <<registered, complete>>

Next ==
    \/ \E w \in Workspaces : Call(w)
    \/ Work \/ ReturnKey \/ Fail \/ Complete
    \/ MakeRealm

Spec == Init /\ [][Next]_vars
=============================================================================
