----------------------------- MODULE HostRuntime -----------------------------
(***************************************************************************)
(* windows/src/runtime.rs: the named mutex that keeps a second resident    *)
(* instance from starting, and the flag the console handler sets.  The     *)
(* mutex exists while some process has it open.                            *)
(***************************************************************************)
CONSTANTS Instances \* the processes that may run at once

VARIABLES
  handles,    \* the processes that have the mutex open
  instance,   \* how far SingleInstance is in each of them
  handler,    \* this process' console handler is registered
  requested,  \* SHUTDOWN_REQUESTED
  told        \* the handler was called: somebody asked this process to stop

mutexVars == <<handles, instance>>
shutdownVars == <<handler, requested, told>>

RuntimeInit ==
  /\ handles = {}
  /\ instance = [i \in Instances |-> "out"]
  /\ handler = FALSE /\ requested = FALSE /\ told = FALSE

-----------------------------------------------------------------------------
(* SingleInstance.                                                         *)

\* CreateMutexW opens the mutex that is there, and GetLastError says so.
CreateMutex(i) ==
  /\ instance[i] = "out"
  /\ handles' = handles \cup {i}
  /\ instance' = [instance EXCEPT ![i] =
                    IF handles = {} THEN "created" ELSE "existed"]

\* Mutant: the handle is dropped as soon as acquire has returned.
AcquireAndDrop(i) ==
  /\ instance[i] = "created"
  /\ instance' = [instance EXCEPT ![i] = "resident"]
  /\ handles' = handles \ {i}

Acquire(i) ==
  /\ instance[i] = "created"
  /\ instance' = [instance EXCEPT ![i] = "resident"]
  /\ UNCHANGED handles

Refuse(i) ==
  /\ instance[i] = "existed"
  /\ instance' = [instance EXCEPT ![i] = "out"]
  /\ handles' = handles \ {i}

\* Drop, or the end of the process at any moment.
Leave(i) ==
  /\ handles' = handles \ {i}
  /\ instance' = [instance EXCEPT ![i] = "out"]

-----------------------------------------------------------------------------
(* The shutdown flag.                                                      *)

ClearFlag ==
  /\ requested' = FALSE
  /\ UNCHANGED <<handler, told>>

InstallHandler ==
  /\ handler' = TRUE
  /\ UNCHANGED <<requested, told>>

\* console_control_handler
HandlerCalled ==
  /\ handler
  /\ requested' = TRUE
  /\ told' = TRUE
  /\ UNCHANGED handler

\* The end of the process.
ForgetRequest == handler' = FALSE /\ requested' = FALSE /\ told' = FALSE

-----------------------------------------------------------------------------
(* No two instances are resident at once, wherever processes are stopped   *)
(* between creating the mutex and looking at the last error, and whoever   *)
(* is refused or killed in the meantime.                                   *)
OneResident ==
  \A i, j \in Instances :
    instance[i] = "resident" /\ instance[j] = "resident" => i = j
=============================================================================
