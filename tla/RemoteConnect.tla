---------------------------- MODULE RemoteConnect ----------------------------
(***************************************************************************)
(* How a remote connection comes about: the checks of its profile and of   *)
(* the jump profiles, the secrets it reads, the transport it starts and    *)
(* the probe that makes it a session (remote-ssh/src/bridge.rs,            *)
(* remote-ftp/src/remote_core.rs, remote-smb/src/bridge.rs), with the      *)
(* secret store behind it (bins/appd/src/remote.rs SecretToolStore).       *)
(*                                                                         *)
(* The endpoints of an SSH connection are mapped one after the other, the  *)
(* target first.  All of them share one askpass slot, which the ssh        *)
(* client's helper offers to whichever endpoint prompts.                   *)
(***************************************************************************)
EXTENDS Integers, Sequences

CONSTANTS
  Secrets,        \* items of the secret service
  MaxJumpHosts    \* MAX_JUMP_HOSTS

ASSUME JumpHostsAssumption == MaxJumpHosts \in Nat

VARIABLES
  attempt,        \* the connection being made
  control,        \* "live", "cancelled": the operation's RemoteIoControl
  service,        \* the items the secret service holds
  told,           \* references a Store command has answered with
  doomed,         \* references some Delete command was sent for
  storing         \* the secret-tool child of a Store command

connectVars == <<attempt, control, service, told, doomed, storing>>

Auths == {"agent", "key", "key+passphrase", "password"}
Prompts(auth) == auth \in {"key+passphrase", "password"}

(* An endpoint of an SSH chain as its profile describes it; a jump profile may be one *)
(* that cannot serve as a jump (another protocol, agent forwarding, jumps of its own). *)
Endpoint == [auth : Auths, firstUse : {"reject", "ask"}, plain : BOOLEAN]
SshProfiles == [kind : {"sftp", "terminal"}, target : Endpoint, jumps : 0..MaxJumpHosts + 1,
                accept : BOOLEAN]
OtherProfiles ==
  [kind : {"ftps"}, auth : {"anonymous", "password"}, protect : BOOLEAN]
    \cup [kind : {"ftp"}, auth : {"anonymous", "password"}, protect : {FALSE}]
    \cup [kind : {"smb"}, auth : {"kerberos", "password"}, protect : BOOLEAN]

Idle == [step |-> "idle"]
Nothing == [step |-> "idle", item |-> "none"]
IsSsh(profile) == profile.kind \in {"sftp", "terminal"}

ConnectInit ==
  /\ attempt = Idle /\ control = "live" /\ service \in SUBSET Secrets /\ told = service
  /\ doomed = {} /\ storing = Nothing

(* A connect command arrives with a profile of the store. *)
BeginConnect(profile) ==
  /\ attempt.step = "idle"
  /\ attempt' = [step |-> "checking", profile |-> profile, mapped |-> <<>>, askpass |-> 0,
                 transport |-> FALSE, private |-> FALSE]
  /\ control' = "live"
  /\ UNCHANGED <<service, told, doomed, storing>>

Moves(step) == attempt' = [attempt EXCEPT !.step = step]
AttemptFails == attempt' = [attempt EXCEPT !.step = "failed", !.transport = FALSE]
Otherwise(ok, step) == IF ok THEN Moves(step) ELSE AttemptFails
SecretsAsTheyAre == UNCHANGED <<service, told, doomed, storing>>

(* Faulty variant of Routable: a target's own prompt is not refused behind jumps. *)
RoutableAlways(profile) ==
  /\ profile.target.plain
  /\ profile.jumps <= MaxJumpHosts

(* The checks of prepare_profile and prepare_terminal_profile on the target. *)
Routable(profile) ==
  /\ profile.target.plain
  /\ profile.jumps <= MaxJumpHosts
  /\ profile.jumps > 0 => ~Prompts(profile.target.auth)

(* connect_profile: an FTPS profile must protect its data channel. *)
Allowed(profile) == profile.kind = "ftps" => profile.protect

CheckProfile ==
  /\ attempt.step = "checking"
  /\ IF attempt.profile.kind # "terminal" /\ control = "cancelled" THEN AttemptFails
     ELSE IF IsSsh(attempt.profile) THEN Otherwise(Routable(attempt.profile), "mapping")
     ELSE Otherwise(Allowed(attempt.profile), "resolving")
  /\ UNCHANGED control /\ SecretsAsTheyAre

(* Faulty variant of HostKeyPolicy: the user's confirmation covers the whole chain. *)
HostKeyPolicyForAll(profile, e, i) ==
  CASE profile.kind = "terminal" /\ e.firstUse = "ask" ->
         IF profile.accept THEN "AcceptNew" ELSE "Strict"
    [] e.firstUse = "reject" /\ ~profile.accept -> "Strict"
    [] OTHER -> "refused"

(* The first half of map_endpoint; accept_new_host_key is passed for the target only. *)
HostKeyPolicy(profile, e, i) ==
  LET accept == profile.kind = "terminal" /\ profile.accept /\ i = 1
  IN CASE profile.kind = "terminal" /\ e.firstUse = "ask" ->
            IF accept THEN "AcceptNew" ELSE "Strict"
       [] e.firstUse = "reject" /\ ~accept -> "Strict"
       [] OTHER -> "refused"

(* resolve_reference: the item is looked up; the helper may fail or time out. *)
Resolves == service # {}

(* Faulty variant of Unmapped: the loop over the endpoints runs once too often. *)
UnmappedOffByOne == Len(attempt.mapped) <= attempt.profile.jumps + 1
Unmapped == Len(attempt.mapped) <= attempt.profile.jumps

(* map_endpoint for the next endpoint: the target, then each jump profile as the store  *)
(* has it when its turn comes, which validate_jump_profile checks first.  Its secrets   *)
(* are read, and a prompting endpoint takes the askpass slot over.                      *)
MapEndpoint ==
  /\ attempt.step = "mapping" /\ Unmapped
  /\ LET i == Len(attempt.mapped) + 1 IN
     \E e \in IF i = 1 THEN {attempt.profile.target} ELSE Endpoint :
       LET policy == HostKeyPolicy(attempt.profile, e, i) IN
       \/ /\ e.plain /\ policy # "refused" /\ (e.auth = "agent" \/ Resolves)
          /\ attempt' = [attempt EXCEPT !.mapped = Append(@, policy),
                                        !.askpass = IF Prompts(e.auth) THEN i ELSE @]
       \/ /\ ~e.plain \/ policy = "refused" \/ e.auth # "agent"
          /\ AttemptFails
  /\ UNCHANGED control /\ SecretsAsTheyAre

(* connect_profile and SMB's connect_controlled: the password, if the profile has one. *)
ResolvePassword ==
  /\ attempt.step = "resolving"
  /\ \/ (attempt.profile.auth # "password" \/ Resolves) /\ Moves("starting")
     \/ (attempt.profile.auth = "password" \/ control = "cancelled") /\ AttemptFails
  /\ UNCHANGED control /\ SecretsAsTheyAre

(* start_structured_sftp_controlled or open_terminal: the ssh process of the mapped      *)
(* chain; what an interrupted or failed start spawned is killed with it.                 *)
StartSsh ==
  /\ attempt.step = "mapping" /\ ~Unmapped
  /\ \/ /\ attempt.profile.kind = "terminal" \/ control = "live"
        /\ attempt' = [attempt EXCEPT
             !.step = IF attempt.profile.kind = "terminal" THEN "ready" ELSE "probing",
             !.transport = TRUE, !.private = TRUE]
     \/ AttemptFails
  /\ UNCHANGED control /\ SecretsAsTheyAre

(* The FTP connector or libsmbclient's context, with the protection the profile asks. *)
StartSession ==
  /\ attempt.step = "starting"
  /\ \/ /\ control = "live"
        /\ attempt' = [attempt EXCEPT !.step = "probing", !.transport = TRUE,
             !.private = attempt.profile.kind = "ftps" \/ attempt.profile.protect]
     \/ AttemptFails
  /\ UNCHANGED control /\ SecretsAsTheyAre

(* Faulty variant of ProbeSession: a failed probe forgets the transport without closing it. *)
ProbeSessionForgets ==
  /\ attempt.step = "probing"
  /\ \/ (attempt.profile.kind = "sftp" \/ control = "live") /\ Moves("ready")
     \/ Moves("failed")
  /\ UNCHANGED control /\ SecretsAsTheyAre

(* The probe (metadata of ".", FTP's probe, the root's stat) and, for FTP and SMB, the  *)
(* last look at the control; a failure closes the transport.                            *)
ProbeSession ==
  /\ attempt.step = "probing"
  /\ \/ (attempt.profile.kind = "sftp" \/ control = "live") /\ Moves("ready")
     \/ AttemptFails
  /\ UNCHANGED control /\ SecretsAsTheyAre

(* The session is closed or the failure reported. *)
EndAttempt ==
  /\ attempt.step \in {"ready", "failed"} /\ attempt' = Idle
  /\ UNCHANGED control /\ SecretsAsTheyAre

CancelConnect ==
  /\ control = "live" /\ attempt.step \notin {"idle", "ready", "failed"}
  /\ control' = "cancelled" /\ UNCHANGED attempt /\ SecretsAsTheyAre

(* A Store command: the value goes to secret-tool's stdin under a fresh reference. *)
StoreBegins(i) ==
  /\ storing.step = "idle" /\ i \in Secrets \ (service \cup told \cup doomed)
  /\ storing' = [step |-> "running", item |-> i]
  /\ UNCHANGED <<attempt, control, service, told, doomed>>

ToolStores ==
  /\ storing.step = "running" /\ storing' = [storing EXCEPT !.step = "stored"]
  /\ service' = service \cup {storing.item}
  /\ UNCHANGED <<attempt, control, told, doomed>>

(* Faulty variant of StoreEnds: the reply does not wait for the helper. *)
StoreEndsEarly ==
  /\ storing.step # "idle" /\ told' = told \cup {storing.item}
  /\ storing' = Nothing
  /\ UNCHANGED <<attempt, control, service, doomed>>

(* wait_secret_tool: success hands the reference out; a failure or the timeout, after  *)
(* which the helper is killed, does not, whether or not the item had been stored.       *)
StoreEnds ==
  /\ storing.step # "idle" /\ storing' = Nothing
  /\ \/ storing.step = "stored" /\ told' = told \cup {storing.item}
     \/ UNCHANGED told
  /\ UNCHANGED <<attempt, control, service, doomed>>

(* A Delete command; it too may fail after the item is gone. *)
DeleteSecret(i) ==
  /\ i \in told /\ doomed' = doomed \cup {i}
  /\ service' \in {service, service \ {i}}
  /\ UNCHANGED <<attempt, control, told, storing>>

ConnectNext ==
  \/ attempt.step = "idle" /\ \E profile \in SshProfiles \cup OtherProfiles : BeginConnect(profile)
  \/ CheckProfile \/ MapEndpoint \/ ResolvePassword \/ StartSsh \/ StartSession \/ ProbeSession \/ EndAttempt
  \/ CancelConnect

SecretsNext ==
  \/ \E i \in Secrets : StoreBegins(i) \/ DeleteSecret(i)
  \/ ToolStores \/ StoreEnds

ConnectSpec == ConnectInit /\ [][ConnectNext \/ SecretsNext]_connectVars
-----------------------------------------------------------------------------
(* The attempt is at one of its steps and its endpoints are mapped in order            *)
(* (bridge.rs PreparedProfile); the secret service holds items of its own.             *)
ConnectTypeOK ==
  /\ attempt.step \in {"idle", "checking", "mapping", "resolving", "starting", "probing",
                       "ready", "failed"}
  /\ attempt.step # "idle" => attempt.askpass \in 0..Len(attempt.mapped)
  /\ attempt.step # "idle" /\ IsSsh(attempt.profile) =>
       Len(attempt.mapped) <= attempt.profile.jumps + 1
  /\ control \in {"live", "cancelled"}
  /\ service \subseteq Secrets /\ told \subseteq Secrets /\ doomed \subseteq told

(* A session is as private as its profile asks (map_endpoint, connect_profile,         *)
(* NativeSmbConfig.require_protection): no host key is accepted without being known,   *)
(* except the target's of a terminal whose user confirmed it, and a session with a     *)
(* protected profile is a protected one.                                               *)
SessionIsAsPrivateAsAsked ==
  attempt.step = "ready" =>
    IF IsSsh(attempt.profile)
      THEN \A i \in DOMAIN attempt.mapped : attempt.mapped[i] = "AcceptNew" =>
             /\ i = 1 /\ attempt.profile.kind = "terminal" /\ attempt.profile.accept
             /\ attempt.profile.target.firstUse = "ask"
      ELSE attempt.profile.protect => attempt.private

(* The target's password or passphrase never sits in the askpass slot of a connection  *)
(* with jump hosts, which would be offered it (bridge.rs                               *)
(* "sftp_jump_secret_routing_not_supported").                                          *)
TargetSecretStaysHome ==
  attempt.step \in {"mapping", "probing", "ready"} /\ IsSsh(attempt.profile) =>
    (attempt.askpass = 1 => attempt.profile.jumps = 0)

(* A failed or cancelled connect leaves no ssh process, FTP handle or SMB context      *)
(* behind (structured.close, client.disconnect, kill_on_drop).                         *)
NoTransportLeft ==
  attempt.step # "idle" /\ attempt.transport => attempt.step \in {"probing", "ready"}

(* A reference handed out resolves until somebody asks for its deletion                *)
(* (secret_command_with_program waits for the helper before it answers).               *)
ReferencesResolve == told \ doomed \subseteq service

\* A connect ends in a session as private as asked or in nothing, gives the
\* target's secret to nobody else, and secrets that were stored can be read
\* (connect of the three adapters, SecretToolStore).
ConnectsArePrivate ==
  /\ ConnectTypeOK /\ SessionIsAsPrivateAsAsked /\ TargetSecretStaysHome
  /\ NoTransportLeft /\ ReferencesResolve
=============================================================================
