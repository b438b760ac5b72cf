------------------------------ MODULE PamLogin ------------------------------
(***************************************************************************)
(* The PAM module of src/crates/pam_oidc: one process that serves          *)
(* authenticate, acct_mgmt and chauthtok calls one after the other.  The   *)
(* device flow of authenticate is the one of module DeviceFlow, whose      *)
(* steps are taken here while the call is in it.  setcred does nothing.    *)
(*                                                                         *)
(* The service is known by its answers only: what they depend on is the    *)
(* subject of module Service.                                              *)
(***************************************************************************)
EXTENDS DeviceFlow

CONSTANTS
  Logins,     \* PAM user names
  Subjects,   \* subjects of ID tokens; a login name may be one
  Ids         \* external identifiers of the accounts the service may find

Nobody == "nobody"
ASSUME PamAssumption == Nobody \notin Subjects \cup Logins \cup Ids

VARIABLES
  OIDC_CLIENT, SERVICE,  \* the two OnceLocks
  pam,       \* where the call in progress is
  user,      \* username of the call in progress
  token,     \* subject of the token the provider has made out
  returned,  \* what the last step returned, if it returned
  approver   \* history: who approved the device code of this login

pamVars == <<OIDC_CLIENT, SERVICE, pam, user, token, returned, approver>>
allVars == <<vars, pamVars>>

Once == {"unset", "ready", "failed"}
Nothing == [fn |-> "none", user |-> Nobody, status |-> "none", id |-> Nobody]

PamInit ==
  /\ Init
  /\ OIDC_CLIENT = "unset" /\ SERVICE = "unset"
  /\ pam = "idle" /\ user = Nobody /\ token = Nobody
  /\ returned = Nothing /\ approver = Nobody

-----------------------------------------------------------------------------

(* Discovery fails when the provider does not answer, its document lacks   *)
(* an endpoint, or names another issuer or an endpoint without https.      *)
Discovery == {"ready", "failed"}

(* get_or_init: the first caller tries, and the outcome is kept for the    *)
(* life of the process, a failure too.                                     *)
get_or_init(once, outcomes) == IF once = "unset" THEN outcomes ELSE {once}

(* Both load the configuration first, which may fail as well. *)
get_oidc_client == get_or_init(OIDC_CLIENT, Discovery)
get_service == get_or_init(SERVICE, {"ready", "failed"})

(* The call ends.  id is the account that the service found for the user.  *)
Return(fn, u, status, id) ==
  /\ pam' = "idle" /\ user' = Nobody /\ token' = Nobody
  /\ returned' = [fn |-> fn, user |-> u, status |-> status, id |-> id]

GoOn(place) ==
  /\ pam' = place
  /\ returned' = Nothing
  /\ UNCHANGED <<user, token>>

(* pam_get_user gives no name, or one that is not UTF-8. *)
NoUser(fn) ==
  /\ pam = "idle"
  /\ Return(fn, Nobody, "PAM_AUTH_ERR", Nobody)
  /\ UNCHANGED <<vars, OIDC_CLIENT, SERVICE, approver>>

(* authenticate up to the device flow. *)
Authenticate(u) ==
  /\ pam = "idle"
  /\ OIDC_CLIENT' \in get_oidc_client
  /\ approver' = Nobody
  /\ IF OIDC_CLIENT' = "failed"
       THEN Return("authenticate", u, "PAM_AUTHINFO_UNAVAIL", Nobody)
       ELSE pam' = "flow" /\ user' = u /\ returned' = Nothing /\ UNCHANGED token
  /\ UNCHANGED <<vars, SERVICE>>

(* Mutant of FlowStep: the result of the flow is not looked at. *)
FlowStepOptimistic ==
  /\ pam = "flow"
  /\ RequestFails \/ Flow \/ \E i \in Intervals, l \in Lifetimes : Request(i, l)
  /\ GoOn(IF phase' # "idle" THEN "flow" ELSE "id_token")
  /\ UNCHANGED <<OIDC_CLIENT, SERVICE, approver>>

(* authenticate_device_flow goes on, or ends with or without a token. *)
FlowStep ==
  /\ pam = "flow"
  /\ RequestFails \/ Flow \/ \E i \in Intervals, l \in Lifetimes : Request(i, l)
  /\ IF phase' # "idle" THEN GoOn("flow")
     ELSE IF result' = "token" THEN GoOn("id_token")
     ELSE Return("authenticate", user, "PAM_AUTH_ERR", Nobody)
  /\ UNCHANGED <<OIDC_CLIENT, SERVICE, approver>>

(* The response has no ID token, the keys cannot be fetched, or the token  *)
(* is not valid.                                                           *)
IdTokenRejected ==
  /\ pam = "id_token"
  /\ Return("authenticate", user, "PAM_AUTH_ERR", Nobody)
  /\ UNCHANGED <<vars, OIDC_CLIENT, SERVICE, approver>>

(* A valid ID token.  If its subject is not the user name itself, the      *)
(* service is asked which account the user name belongs to.                *)
IdTokenValid ==
  /\ pam = "id_token"
  /\ IF token = user
       THEN /\ Return("authenticate", user, "PAM_SUCCESS", Nobody)
            /\ UNCHANGED SERVICE
       ELSE /\ SERVICE' \in get_service
            /\ IF SERVICE' = "failed"
                 THEN Return("authenticate", user, "PAM_AUTH_ERR", Nobody)
                 ELSE GoOn("lookup")
  /\ UNCHANGED <<vars, OIDC_CLIENT, approver>>

(* Mutant of LookedUp: any account will do. *)
LookedUpAny(id) ==
  /\ pam = "lookup"
  /\ Return("authenticate", user,
            IF id # Nobody THEN "PAM_SUCCESS" ELSE "PAM_AUTH_ERR", id)
  /\ UNCHANGED <<vars, OIDC_CLIENT, SERVICE, approver>>

(* lookup_user_by_name has answered: an account, or none, or an error.     *)
LookedUp(id) ==
  /\ pam = "lookup"
  /\ Return("authenticate", user,
            IF id = token THEN "PAM_SUCCESS" ELSE "PAM_AUTH_ERR", id)
  /\ UNCHANGED <<vars, OIDC_CLIENT, SERVICE, approver>>

(* acct_mgmt up to the answer of check_user_active ... *)
AcctMgmt(u) ==
  /\ pam = "idle"
  /\ SERVICE' \in get_service
  /\ IF SERVICE' = "failed"
       THEN Return("acct_mgmt", u, "PAM_AUTHINFO_UNAVAIL", Nobody)
       ELSE pam' = "account" /\ user' = u /\ returned' = Nothing /\ UNCHANGED token
  /\ UNCHANGED <<vars, OIDC_CLIENT, approver>>

(* ... and what becomes of active, inactive and an error. *)
AccountChecked(status) ==
  /\ pam = "account"
  /\ Return("acct_mgmt", user, status, Nobody)
  /\ UNCHANGED <<vars, OIDC_CLIENT, SERVICE, approver>>

(* chauthtok points to the issuer, which it gets from the OIDC client. *)
ChAuthTok ==
  /\ pam = "idle"
  /\ OIDC_CLIENT' \in get_oidc_client
  /\ Return("chauthtok", Nobody, "PAM_AUTHTOK_ERR", Nobody)
  /\ UNCHANGED <<vars, SERVICE, approver>>

-----------------------------------------------------------------------------
(* The person and the provider. *)

(* Whoever has the code and an account at the provider approves it. *)
Approve(s) ==
  /\ Decide("approved")
  /\ approver' = s
  /\ returned' = Nothing
  /\ UNCHANGED <<OIDC_CLIENT, SERVICE, pam, user, token>>

Refuse ==
  /\ Decide("denied")
  /\ returned' = Nothing
  /\ UNCHANGED <<OIDC_CLIENT, SERVICE, pam, user, token, approver>>

(* The provider makes out the token to whoever approved the code. *)
ProviderAnswers ==
  /\ Answer
  /\ token' = IF answer' = "token" THEN approver ELSE token
  /\ returned' = Nothing
  /\ UNCHANGED <<OIDC_CLIENT, SERVICE, pam, user, approver>>

TimePasses ==
  /\ Tick
  /\ returned' = Nothing
  /\ UNCHANGED <<OIDC_CLIENT, SERVICE, pam, user, token, approver>>

Work ==
  \/ FlowStep
  \/ IdTokenRejected \/ IdTokenValid
  \/ \E id \in Ids \cup {Nobody} : LookedUp(id)
  \/ \E status \in {"PAM_SUCCESS", "PAM_PERM_DENIED", "PAM_AUTHINFO_UNAVAIL"} :
       AccountChecked(status)

PamNext ==
  \/ \E fn \in {"authenticate", "acct_mgmt"} : NoUser(fn)
  \/ \E u \in Logins : Authenticate(u) \/ AcctMgmt(u)
  \/ ChAuthTok
  \/ Work
  \/ \E s \in Subjects : Approve(s)
  \/ Refuse \/ ProviderAnswers \/ TimePasses

PamSpec == PamInit /\ [][PamNext]_allVars

(* A call in progress goes on: sleeps end, requests time out, the service  *)
(* answers (CallsReturn of module Service); and time passes.               *)
PamFairSpec == PamSpec /\ WF_allVars(Work) /\ WF_allVars(TimePasses)

-----------------------------------------------------------------------------

PamTypeOK ==
  /\ OIDC_CLIENT \in Once /\ SERVICE \in Once
  /\ pam \in {"idle", "flow", "id_token", "lookup", "account"}
  /\ pam = "idle" <=> user = Nobody
  /\ user \in Logins \cup {Nobody}
  /\ approver \in Subjects \cup {Nobody}
  /\ token \in Subjects \cup {Nobody}
  /\ pam \in {"id_token", "lookup"} => token # Nobody
  /\ phase # "idle" => pam = "flow"

(* authenticate succeeds only if the device code shown in this very call   *)
(* was approved, by a person whose subject is the user name or the account *)
(* the service found for it: not on the strength of an earlier login, of a *)
(* refused or pending code, or of somebody else's approval (pam ffi.rs,    *)
(* "Verify that the authenticated OIDC subject matches the PAM user").     *)
SuccessNeedsApproval ==
  [][returned'.fn = "authenticate" /\ returned'.status = "PAM_SUCCESS"
       => approver # Nobody /\ approver \in {user, returned'.id}]_allVars

(* Every PAM call returns, whatever the person, the provider and the       *)
(* service do (pam ffi.rs, authenticate_impl and acct_mgmt_impl).          *)
PamCallEnds == pam # "idle" ~> pam = "idle"
=============================================================================
