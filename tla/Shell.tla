------------------------------- MODULE Shell -------------------------------
(***************************************************************************)
(* The plugin shell, FrontPanel.cpp: Initialize and Deinitialize, with the *)
(* implementation in Thunder's own process or, as configured, in another   *)
(* one that may crash.  It runs on top of Singleton, the implementation's  *)
(* process.  Thunder does one Initialize or Deinitialize at a time.        *)
(*                                                                         *)
(* Deactivated is no action here: the plugin never registers a             *)
(* RPC::IRemoteConnection::INotification with its service, and nothing     *)
(* else calls it.                                                          *)
(***************************************************************************)
EXTENDS Singleton

CONSTANT Drains   \* requests under way return before Thunder deactivates

ASSUME DrainsAssumption == Drains \in BOOLEAN

VARIABLES
  inProcess,     \* chosen once, by the configuration
  shell,         \* where the plugin's life is
  service,       \* references held to _service
  frontPanel,    \* _frontPanel is set
  connectionId,  \* _connectionId, 0 in process
  methods,       \* the JSON-RPC methods are registered
  process        \* the process of the implementation runs

pluginVars == <<inProcess, shell, service, frontPanel, connectionId, methods, process>>
vars == <<processVars, pluginVars>>

ShellInit ==
  /\ Init
  /\ inProcess \in BOOLEAN /\ process = inProcess
  /\ shell = "deactivated"
  /\ service = 0 /\ frontPanel = FALSE /\ connectionId = 0 /\ methods = FALSE

(***************************************************************************)
(* Initialize                                                              *)
(***************************************************************************)
Activate ==
  /\ shell = "deactivated" /\ activations < MaxActivations
  /\ service' = service + 1
  /\ shell' = "root"
  /\ UNCHANGED <<processVars, inProcess, frontPanel, connectionId, methods, process>>

\* Root: makes the implementation, in a new process if so configured
Root ==
  /\ shell = "root"
  /\ frontPanel' = TRUE
  /\ process' = TRUE
  /\ connectionId' = IF inProcess THEN 0 ELSE 1
  /\ shell' = "configure"
  /\ UNCHANGED <<processVars, inProcess, service, methods>>

\* Root comes back with null, within 5 s; Thunder calls Deinitialize
RootFails ==
  /\ shell = "root"
  /\ shell' = "deinitialize"
  /\ UNCHANGED <<processVars, inProcess, service, frontPanel, connectionId, methods, process>>

\* Configure's result is not looked at: a call that ends because the process
\* has crashed is as good as any
Configure ==
  /\ shell = "configure"
  /\ IF process THEN BeginConfigure ELSE UNCHANGED processVars
  /\ shell' = "configuring"
  /\ UNCHANGED <<inProcess, service, frontPanel, connectionId, methods, process>>

RegisterMethods ==
  /\ shell = "configuring" /\ (process => life = "up")
  /\ methods' = TRUE
  /\ shell' = "activated"
  /\ UNCHANGED <<processVars, inProcess, service, frontPanel, connectionId, process>>

(***************************************************************************)
(* Deinitialize                                                            *)
(***************************************************************************)
Deactivate ==
  /\ shell = "activated"
  /\ Drains => At("req", "idle")
  /\ shell' = "deinitialize"
  /\ UNCHANGED <<processVars, inProcess, service, frontPanel, connectionId, methods, process>>

UnregisterMethods ==
  /\ shell = "deinitialize"
  /\ methods' = FALSE
  /\ shell' = IF frontPanel THEN "release" ELSE "reset"
  /\ UNCHANGED <<processVars, inProcess, service, frontPanel, connectionId, process>>

\* the last reference: the destructor runs before Release returns
ReleaseFrontPanel ==
  /\ shell = "release"
  /\ IF process THEN BeginDestroy ELSE UNCHANGED processVars
  /\ shell' = "releasing"
  /\ UNCHANGED <<inProcess, service, frontPanel, connectionId, methods, process>>

Released ==
  /\ shell = "releasing" /\ (process => life = "down")
  /\ frontPanel' = FALSE
  /\ shell' = "terminate"
  /\ UNCHANGED <<processVars, inProcess, service, connectionId, methods, process>>

\* in process there is no connection, nor after a crash
NotTerminated == UNCHANGED <<processVars, process>>    \* mutant: no Terminate
TerminateConnection ==
  IF connectionId # 0 /\ process THEN Exit /\ process' = FALSE
  ELSE UNCHANGED <<processVars, process>>

Terminate ==
  /\ shell = "terminate"
  /\ TerminateConnection
  /\ shell' = "reset"
  /\ UNCHANGED <<inProcess, service, frontPanel, connectionId, methods>>

ServiceKept == service                                 \* mutant: _service->Release left out
ServiceReleased == service - 1

Reset ==
  /\ shell = "reset"
  /\ connectionId' = 0
  /\ service' = ServiceReleased
  /\ shell' = "deactivated"
  /\ UNCHANGED <<processVars, inProcess, frontPanel, methods, process>>

Initialize == Root \/ RootFails \/ Configure \/ RegisterMethods
Deinitialize ==
  UnregisterMethods \/ ReleaseFrontPanel \/ Released \/ Terminate \/ Reset

-----------------------------------------------------------------------------
(***************************************************************************)
(* The implementation's process, while it runs                             *)
(***************************************************************************)
Running == process /\ UNCHANGED pluginVars

\* through JSON-RPC, from the methods being registered until they are not
ServeMethod == methods /\ shell = "activated" /\ Request

Crash ==
  /\ ~inProcess /\ process
  /\ process' = FALSE
  /\ Exit
  /\ UNCHANGED <<inProcess, shell, service, frontPanel, connectionId, methods>>

Next ==
  \/ Activate \/ Initialize
  \/ Deactivate \/ Deinitialize
  \/ Running /\ (Internal \/ World \/ ServeMethod)
  \/ Crash

\* The threads of Thunder and of the process are scheduled.  Unregister waits
\* for a lock that every notification gives back: it gets it some time, however
\* many notifications come in between.  Nothing makes operators activate or
\* deactivate, clients ask, PowerManager change its mode, or a process crash.
Fairness ==
  /\ WF_vars(Initialize) /\ WF_vars(Deinitialize)
  /\ WF_vars(Running /\ (Conf \/ Instance("conf")))
  /\ SF_vars(Running /\ Unregister)
  /\ WF_vars(Running /\ (SetPowerStatus \/ Instance("note")))
  /\ WF_vars(Running /\ (Serve \/ Instance("req")))
  /\ WF_vars(Running /\ Callback)

Spec == ShellInit /\ [][Next]_vars /\ Fairness
-----------------------------------------------------------------------------
(***************************************************************************)
(* Properties                                                              *)
(***************************************************************************)
\* The type invariant.
TypeOK ==
  /\ ProcessTypeOK
  /\ {inProcess, frontPanel, methods, process} \subseteq BOOLEAN
  /\ shell \in {"deactivated", "root", "configure", "configuring", "activated",
                "deinitialize", "release", "releasing", "terminate", "reset"}
  /\ service \in 0..1 /\ connectionId \in 0..1

\* A deactivation undoes what its activation did, whatever failed in between
\* (Root, or the other process at any time): Initialize finds what its
\* assertions ask for, no process is left behind, and in process no object, no
\* entry of the timer, no registration, and DeInitialize has been called as often
\* as Initialize, unless two threads met in instance().
NothingLeft ==
  shell = "deactivated" =>
    /\ service = 0 /\ ~frontPanel /\ connectionId = 0 /\ ~methods
    /\ process = inProcess
    /\ life = "down" /\ ~registered
    /\ ~raced => alive = {} /\ s_instance = 0 /\ manager = 0 /\ ~initDone
                   /\ entries = {} /\ running = 0

\* An activated plugin whose process runs has gone through Configure entirely:
\* there is an instance behind every method, and device settings are
\* initialised, or at least that was tried, in each activation.
Working ==
  shell = "activated" /\ process =>
    life = "up" /\ initDone /\ s_instance \in alive /\ manager > 0

\* Initialize and Deinitialize come to their end, whenever the process crashes:
\* neither Unregister nor Revoke waits for ever.
Settled == shell \in {"activated", "deactivated"}
SettlesDown == ~Settled ~> Settled

\* When the process of an activated plugin has crashed, the plugin is
\* deactivated ("the plugin should submit a deactivation job to handle the
\* out-of-process failure gracefully").
CrashNoticed == (shell = "activated" /\ ~process) ~> shell # "activated"
=============================================================================
