---------------------------- MODULE MmbiContext ----------------------------
(***************************************************************************)
(* One endpoint's transport context, through either of the two APIs the    *)
(* repository offers, fixed at Init as api, one of APIs:                   *)
(*   "mmbi":      mctp_mmbi_context_init/_send/_context_poll/_destroy/      *)
(*                _set_rx_callback (src/src/mmbi.c 264-386);               *)
(*   "transport": mctp_transport_init/_send/_poll/_destroy/                 *)
(*                _set_rx_callback (src/src/transport.c).                  *)
(* Both open the device with mctp_mmbi_init_device and poll with           *)
(* mctp_mmbi_poll (mmbi.c).  The application thread initialises the        *)
(* context, sends, stops its poll thread and destroys the context, and may *)
(* then initialise a new one; a second thread polls in a loop while the    *)
(* context is up (spec.md 5: one thread polls while another sends).  The   *)
(* application may also (re)register the receive callback, which the      *)
(* trampoline run by mctp_bus_rx calls with the registered user pointer.   *)
(*                                                                         *)
(* The device (the simulated driver or a test's named pipe) matters here   *)
(* only through CreateFileA: it succeeds once the device exists and no     *)
(* other handle to it is open, since the binding opens it with share mode  *)
(* 0 and the pipes have one instance.  What a poll reads is left           *)
(* abstract: ReadFile either returns a packet or nothing.  The MCTP core   *)
(* appears only as the code region "inside the core" that                  *)
(* mctp_message_tx and mctp_bus_rx execute.                                *)
(***************************************************************************)
EXTENDS Naturals, FiniteSets

CONSTANTS
  APIs,          \* a subset of {"mmbi", "transport"}
  AllocMayFail,  \* whether __mctp_alloc / calloc / mctp_pktbuf_alloc may fail
  MaxSends,      \* sends per context
  MaxInits,      \* contexts the application creates one after another
  MaxCbSets      \* set_rx_callback calls per context

ASSUME APIs \subseteq {"mmbi", "transport"}

Threads == {"app", "poller"}

(* The open loop of mctp_mmbi_context_init makes 5 attempts              *)
(* (retries = 5; while (retries--)); mctp_transport_init makes one.       *)
MmbiOpenTries == 5
TransportOpenTries == 1

AllocOutcomes == IF AllocMayFail THEN BOOLEAN ELSE {TRUE}

VARIABLES
  devUp,       \* the device or pipe server exists
  handlesOpen, \* handles to the device this process holds open
  live,        \* objects allocated by the context: "ctx", "mctp", "mmbi"
  handle,      \* mmbi->device_handle is set
  txStorage,   \* mmbi->binding.tx_storage is allocated
  registered,  \* the binding is registered with the core, tx enabled
  retries,     \* the open loop's counter
  attempts,    \* CreateFileA calls made by the current init
  openRc,      \* what the last mctp_mmbi_init_device returned
  appPc,       \* where the application thread is
  result,      \* what the last init returned: "none", "ctx" or "null"
  inits,       \* contexts initialised so far
  sends,       \* sends made on the current context
  lockOwner,   \* owner of mmbi->lock, or "none"
  inCore,      \* threads executing inside the MCTP core
  pollPc,      \* where the poll thread is
  stopPoll,    \* the application asked the poll thread to stop
  api,         \* which of the two APIs the application uses
  rxCb,        \* ctx->rx_cb: 0 (NULL) or the number of a registration
  userCtx,     \* ctx->user_ctx: 0 (NULL) or the number of a registration
  cbSets,      \* set_rx_callback calls made on the current context
  lastCall     \* history: <<cb, user_ctx>> of the last callback invocation

vars == <<devUp, handlesOpen, live, handle, txStorage, registered, retries,
          attempts, openRc, appPc, result, inits, sends, lockOwner, inCore,
          pollPc, stopPoll, api, rxCb, userCtx, cbSets, lastCall>>

callbackVars == <<api, rxCb, userCtx, cbSets, lastCall>>

OpenTries == IF api = "mmbi" THEN MmbiOpenTries ELSE TransportOpenTries

Init ==
  /\ devUp \in BOOLEAN
  /\ handlesOpen = 0
  /\ live = {}
  /\ handle = FALSE
  /\ txStorage = FALSE
  /\ registered = FALSE
  /\ retries = 0
  /\ attempts = 0
  /\ openRc = "none"
  /\ appPc = "idle"
  /\ result = "none"
  /\ inits = 0
  /\ sends = 0
  /\ lockOwner = "none"
  /\ inCore = {}
  /\ pollPc = "off"
  /\ stopPoll = FALSE
  /\ api \in APIs
  /\ rxCb = 0
  /\ userCtx = 0
  /\ cbSets = 0
  /\ lastCall = <<>>

(* EnterCriticalSection returns at once when the lock is free or already  *)
(* held by the calling thread (a critical section is recursive).          *)
CanEnter(t) == lockOwner \in {"none", t}

Released == [live |-> {}, handle |-> FALSE, txStorage |-> FALSE]

-----------------------------------------------------------------------------
(* The environment: the mock driver or pipe server comes up late.         *)
DeviceAppears ==
  /\ ~devUp
  /\ devUp' = TRUE
  /\ UNCHANGED <<handlesOpen, live, handle, txStorage, registered, retries,
                 attempts, openRc, appPc, result, inits, sends, lockOwner,
                 inCore, pollPc, stopPoll>>
  /\ UNCHANGED callbackVars

(* The allocations that open both init functions: the context, mctp_init   *)
(* and mctp_mmbi_init.  Each failure frees what was allocated before it    *)
(* and returns NULL; otherwise the open loop starts with the new context's *)
(* rx_cb and user_ctx NULL (memset / calloc).                              *)
ContextAlloc ==
  /\ appPc = "idle"
  /\ inits < MaxInits
  /\ \E ctxOk, mctpOk, mmbiOk \in AllocOutcomes :
       IF ctxOk /\ mctpOk /\ mmbiOk
       THEN /\ live' = {"ctx", "mctp", "mmbi"}
            /\ retries' = OpenTries
            /\ attempts' = 0
            /\ appPc' = "open"
            /\ rxCb' = 0 /\ userCtx' = 0 /\ cbSets' = 0
            /\ UNCHANGED <<result, inits>>
       ELSE /\ live' = {}
            /\ result' = "null"
            /\ inits' = inits + 1
            /\ UNCHANGED <<retries, attempts, appPc, rxCb, userCtx, cbSets>>
  /\ UNCHANGED <<devUp, handlesOpen, handle, txStorage, registered, openRc,
                 sends, lockOwner, inCore, pollPc, stopPoll, api, lastCall>>

(* Faulty variants of the open loop: one pass too many, as with            *)
(* while (retries-- >= 0), and one too few, as with while (--retries).     *)
OpenAttemptExtraPass ==
  /\ appPc = "open"
  /\ retries >= 0
  /\ retries' = retries - 1
  /\ attempts' = attempts + 1
  /\ IF devUp /\ handlesOpen = 0
     THEN \E allocated \in AllocOutcomes :
            /\ handlesOpen' = handlesOpen + 1
            /\ handle' = TRUE
            /\ txStorage' = allocated
            /\ openRc' = IF allocated THEN "ok" ELSE "ENOMEM"
            /\ appPc' = IF allocated \/ retries - 1 < 0 THEN "check" ELSE "open"
     ELSE /\ openRc' = "fail"
          /\ appPc' = IF retries - 1 < 0 THEN "check" ELSE "open"
          /\ UNCHANGED <<handlesOpen, handle, txStorage>>
  /\ UNCHANGED <<devUp, live, registered, result, inits, sends, lockOwner,
                 inCore, pollPc, stopPoll>>
  /\ UNCHANGED callbackVars

OpenAttemptShortLoop ==
  /\ appPc = "open"
  /\ retries > 0
  /\ retries' = retries - 1
  /\ attempts' = attempts + 1
  /\ IF devUp /\ handlesOpen = 0
     THEN \E allocated \in AllocOutcomes :
            /\ handlesOpen' = handlesOpen + 1
            /\ handle' = TRUE
            /\ txStorage' = allocated
            /\ openRc' = IF allocated THEN "ok" ELSE "ENOMEM"
            /\ appPc' = IF allocated \/ retries - 1 <= 1 THEN "check" ELSE "open"
     ELSE /\ openRc' = "fail"
          /\ appPc' = IF retries - 1 <= 1 THEN "check" ELSE "open"
          /\ UNCHANGED <<handlesOpen, handle, txStorage>>
  /\ UNCHANGED <<devUp, live, registered, result, inits, sends, lockOwner,
                 inCore, pollPc, stopPoll>>
  /\ UNCHANGED callbackVars

(* One pass of the open loop: mctp_mmbi_init_device.  CreateFileA fails   *)
(* (return -1, device_handle untouched) unless the device exists and is    *)
(* not already open.  On success device_handle is set, then tx_storage is  *)
(* allocated; if that fails the call returns -ENOMEM with the handle set   *)
(* and open.  mctp_mmbi_context_init leaves the loop on 0 or after the     *)
(* 5th pass; mctp_transport_init makes the one call.                       *)
OpenAttempt ==
  /\ appPc = "open"
  /\ retries > 0
  /\ retries' = retries - 1
  /\ attempts' = attempts + 1
  /\ IF devUp /\ handlesOpen = 0
     THEN \E allocated \in AllocOutcomes :
            /\ handlesOpen' = handlesOpen + 1
            /\ handle' = TRUE
            /\ txStorage' = allocated
            /\ openRc' = IF allocated THEN "ok" ELSE "ENOMEM"
            /\ appPc' = IF allocated \/ retries - 1 = 0 THEN "check" ELSE "open"
     ELSE /\ openRc' = "fail"
          /\ appPc' = IF retries - 1 = 0 THEN "check" ELSE "open"
          /\ UNCHANGED <<handlesOpen, handle, txStorage>>
  /\ UNCHANGED <<devUp, live, registered, result, inits, sends, lockOwner,
                 inCore, pollPc, stopPoll>>
  /\ UNCHANGED callbackVars

(* After the open loop, on failure: the binding, the core and the context *)
(* are freed (mctp_mmbi_destroy does not close the handle) and NULL is     *)
(* returned.                                                               *)
InitFails ==
  /\ live' = Released.live
  /\ handle' = Released.handle
  /\ txStorage' = Released.txStorage
  /\ result' = "null"
  /\ appPc' = "idle"
  /\ inits' = inits + 1
  /\ UNCHANGED <<registered, pollPc, sends>>

(* On success: the binding is registered, tx enabled, the receive handler  *)
(* (the trampoline) installed, and the caller starts polling.              *)
InitSucceeds ==
  /\ registered' = TRUE
  /\ result' = "ctx"
  /\ appPc' = "ready"
  /\ pollPc' = "idle"
  /\ sends' = 0
  /\ UNCHANGED <<live, handle, txStorage, inits>>

(* mctp_mmbi_context_init tests only device_handle after its loop.         *)
InitFinish ==
  /\ appPc = "check"
  /\ api = "mmbi"
  /\ IF handle THEN InitSucceeds ELSE InitFails
  /\ UNCHANGED <<devUp, handlesOpen, retries, attempts, openRc, lockOwner,
                 inCore, stopPoll>>
  /\ UNCHANGED callbackVars

(* A faulty variant: mctp_transport_init testing device_handle as the      *)
(* MMBI API does, instead of the return code.                              *)
InitFinishTestsHandle ==
  /\ appPc = "check"
  /\ api = "transport"
  /\ IF handle THEN InitSucceeds ELSE InitFails
  /\ UNCHANGED <<devUp, handlesOpen, retries, attempts, openRc, lockOwner,
                 inCore, stopPoll>>
  /\ UNCHANGED callbackVars

(* mctp_transport_init tests the return code of mctp_mmbi_init_device.     *)
TransportInitFinish ==
  /\ appPc = "check"
  /\ api = "transport"
  /\ IF openRc = "ok" THEN InitSucceeds ELSE InitFails
  /\ UNCHANGED <<devUp, handlesOpen, retries, attempts, openRc, lockOwner,
                 inCore, stopPoll>>
  /\ UNCHANGED callbackVars

(* A faulty variant: mctp_mmbi_send without its EnterCriticalSection.      *)
SendEnterUnlocked ==
  /\ appPc = "ready"
  /\ api = "mmbi"
  /\ sends < MaxSends
  /\ inCore' = inCore \cup {"app"}
  /\ appPc' = "tx"
  /\ UNCHANGED <<devUp, handlesOpen, live, handle, txStorage, registered,
                 retries, attempts, openRc, result, inits, sends, lockOwner,
                 pollPc, stopPoll>>
  /\ UNCHANGED callbackVars

(* mctp_mmbi_send enters mmbi->lock, then mctp_message_tx runs in the core *)
(* (and calls mctp_mmbi_tx).                                               *)
SendEnter ==
  /\ appPc = "ready"
  /\ api = "mmbi"
  /\ sends < MaxSends
  /\ CanEnter("app")
  /\ lockOwner' = "app"
  /\ inCore' = inCore \cup {"app"}
  /\ appPc' = "tx"
  /\ UNCHANGED <<devUp, handlesOpen, live, handle, txStorage, registered,
                 retries, attempts, openRc, result, inits, sends, pollPc, stopPoll>>
  /\ UNCHANGED callbackVars

(* mctp_message_tx returns; mctp_mmbi_send leaves the lock.                *)
SendExit ==
  /\ appPc = "tx"
  /\ api = "mmbi"
  /\ inCore' = inCore \ {"app"}
  /\ lockOwner' = "none"
  /\ sends' = sends + 1
  /\ appPc' = "ready"
  /\ UNCHANGED <<devUp, handlesOpen, live, handle, txStorage, registered,
                 retries, attempts, openRc, result, inits, pollPc, stopPoll>>
  /\ UNCHANGED callbackVars

(* mctp_transport_send calls mctp_message_tx with no lock at all.          *)
TransportSendEnter ==
  /\ appPc = "ready"
  /\ api = "transport"
  /\ sends < MaxSends
  /\ inCore' = inCore \cup {"app"}
  /\ appPc' = "tx"
  /\ UNCHANGED <<devUp, handlesOpen, live, handle, txStorage, registered,
                 retries, attempts, openRc, result, inits, sends, lockOwner,
                 pollPc, stopPoll>>
  /\ UNCHANGED callbackVars

(* mctp_message_tx returns, and so does mctp_transport_send.               *)
TransportSendExit ==
  /\ appPc = "tx"
  /\ api = "transport"
  /\ inCore' = inCore \ {"app"}
  /\ sends' = sends + 1
  /\ appPc' = "ready"
  /\ UNCHANGED <<devUp, handlesOpen, live, handle, txStorage, registered,
                 retries, attempts, openRc, result, inits, lockOwner, pollPc,
                 stopPoll>>
  /\ UNCHANGED callbackVars

(* set_rx_callback (either API), first store: ctx->rx_cb = cb.  No lock is *)
(* taken; the two stores are separate steps a concurrent poll can fall     *)
(* between.  Registration k passes callback k and user pointer k.          *)
SetRxCb ==
  /\ appPc = "ready"
  /\ cbSets < MaxCbSets
  /\ rxCb' = cbSets + 1
  /\ cbSets' = cbSets + 1
  /\ appPc' = "setcb"
  /\ UNCHANGED <<devUp, handlesOpen, live, handle, txStorage, registered,
                 retries, attempts, openRc, result, inits, sends, lockOwner,
                 inCore, pollPc, stopPoll, api, userCtx, lastCall>>

(* Second store: ctx->user_ctx = user_context; set_rx_callback returns.    *)
SetUserCtx ==
  /\ appPc = "setcb"
  /\ userCtx' = cbSets
  /\ appPc' = "ready"
  /\ UNCHANGED <<devUp, handlesOpen, live, handle, txStorage, registered,
                 retries, attempts, openRc, result, inits, sends, lockOwner,
                 inCore, pollPc, stopPoll, api, rxCb, cbSets, lastCall>>

(* The application stops its poll loop before tearing down.                *)
StopPoller ==
  /\ appPc = "ready"
  /\ stopPoll' = TRUE
  /\ appPc' = "joining"
  /\ UNCHANGED <<devUp, handlesOpen, live, handle, txStorage, registered,
                 retries, attempts, openRc, result, inits, sends, lockOwner,
                 inCore, pollPc>>
  /\ UNCHANGED callbackVars

(* Destroy, once the poll thread has exited: unregister the bus, then      *)
(* mctp_mmbi_destroy (which frees the binding but never closes             *)
(* device_handle), then mctp_destroy, then free the context.               *)
Destroy ==
  /\ appPc = "joining"
  /\ pollPc = "exited"
  /\ registered' = FALSE
  /\ live' = Released.live
  /\ handle' = Released.handle
  /\ txStorage' = Released.txStorage
  /\ appPc' = "idle"
  /\ inits' = inits + 1
  /\ pollPc' = "off"
  /\ stopPoll' = FALSE
  /\ UNCHANGED <<devUp, handlesOpen, retries, attempts, openRc, result, sends,
                 lockOwner, inCore>>
  /\ UNCHANGED callbackVars

-----------------------------------------------------------------------------
(* mctp_mmbi_poll's ReadFile, outside the lock, returns a packet (a read   *)
(* that returns nothing changes nothing and is not a step).                *)
PollRead ==
  /\ pollPc = "idle"
  /\ ~stopPoll
  /\ pollPc' = "lock"
  /\ UNCHANGED <<devUp, handlesOpen, live, handle, txStorage, registered,
                 retries, attempts, openRc, appPc, result, inits, sends,
                 lockOwner, inCore, stopPoll>>
  /\ UNCHANGED callbackVars

PollLock ==
  /\ pollPc = "lock"
  /\ CanEnter("poller")
  /\ \E allocated \in AllocOutcomes :
       IF allocated
       THEN /\ lockOwner' = "poller"
            /\ inCore' = inCore \cup {"poller"}
            /\ pollPc' = "deliver"
       ELSE /\ pollPc' = "idle"
            /\ UNCHANGED <<lockOwner, inCore>>
  /\ UNCHANGED <<devUp, handlesOpen, live, handle, txStorage, registered,
                 retries, attempts, openRc, appPc, result, inits, sends, stopPoll>>
  /\ UNCHANGED callbackVars

(* mmbi_internal_rx / transport_rx_handler, run by mctp_bus_rx for the     *)
(* message the packet completes: if ctx->rx_cb is set it is called with    *)
(* ctx->user_ctx, both read as they are now.  Result: the <<cb, user_ctx>> *)
(* pair called, or lastCall unchanged when no callback is set.             *)
Trampoline ==
  IF rxCb # 0 THEN <<rxCb, userCtx>> ELSE lastCall

(* mctp_bus_rx returns (the trampoline ran inside it); the lock is left    *)
(* and poll returns 0.                                                     *)
PollDeliver ==
  /\ pollPc = "deliver"
  /\ inCore' = inCore \ {"poller"}
  /\ lockOwner' = "none"
  /\ pollPc' = "idle"
  /\ lastCall' = Trampoline
  /\ UNCHANGED <<devUp, handlesOpen, live, handle, txStorage, registered,
                 retries, attempts, openRc, appPc, result, inits, sends, stopPoll,
                 api, rxCb, userCtx, cbSets>>

(* The poll loop sees the stop request between two polls and exits.        *)
PollExit ==
  /\ pollPc = "idle"
  /\ stopPoll
  /\ pollPc' = "exited"
  /\ UNCHANGED <<devUp, handlesOpen, live, handle, txStorage, registered,
                 retries, attempts, openRc, appPc, result, inits, sends,
                 lockOwner, inCore, stopPoll>>
  /\ UNCHANGED callbackVars

(* The application has made all its contexts and returned.                *)
Finished ==
  /\ appPc = "idle"
  /\ inits = MaxInits
  /\ UNCHANGED vars

Next ==
  \/ DeviceAppears
  \/ ContextAlloc \/ OpenAttempt \/ InitFinish \/ TransportInitFinish
  \/ SendEnter \/ SendExit \/ TransportSendEnter \/ TransportSendExit
  \/ SetRxCb \/ SetUserCtx \/ StopPoller \/ Destroy
  \/ PollRead \/ PollLock \/ PollDeliver \/ PollExit
  \/ Finished

(* Both threads keep running their code; the device need not appear.  A   *)
(* send gets no fairness: mctp_message_tx ends in mctp_mmbi_tx's WriteFile, *)
(* which on a pipe blocks for as long as the pipe stays full, possibly for *)
(* ever (MmbiPipeLink, pipe_lock_deadlock).                                *)
Fairness ==
  /\ WF_vars(OpenAttempt) /\ WF_vars(InitFinish)
  /\ WF_vars(TransportInitFinish) /\ WF_vars(SetUserCtx) /\ WF_vars(Destroy)
  /\ WF_vars(PollLock) /\ WF_vars(PollDeliver) /\ WF_vars(PollExit)

Spec == Init /\ [][Next]_vars /\ Fairness

-----------------------------------------------------------------------------
TypeOK ==
  /\ devUp \in BOOLEAN
  /\ handlesOpen \in 0 .. MaxInits
  /\ live \in SUBSET {"ctx", "mctp", "mmbi"}
  /\ handle \in BOOLEAN /\ txStorage \in BOOLEAN /\ registered \in BOOLEAN
  /\ retries \in 0 .. OpenTries
  /\ attempts \in 0 .. OpenTries
  /\ openRc \in {"none", "ok", "ENOMEM", "fail"}
  /\ appPc \in {"idle", "open", "check", "ready", "tx", "setcb", "joining"}
  /\ result \in {"none", "ctx", "null"}
  /\ inits \in 0 .. MaxInits
  /\ sends \in 0 .. MaxSends
  /\ lockOwner \in Threads \cup {"none"}
  /\ inCore \in SUBSET Threads
  /\ pollPc \in {"off", "idle", "lock", "deliver", "exited"}
  /\ stopPoll \in BOOLEAN
  /\ api \in APIs
  /\ rxCb \in 0 .. MaxCbSets /\ userCtx \in 0 .. MaxCbSets
  /\ cbSets \in 0 .. MaxCbSets
  /\ lastCall \in {<<>>} \cup ((1 .. MaxCbSets) \X (0 .. MaxCbSets))

(* The core is never entered by two threads at once: a send on the         *)
(* application thread and a delivery on the poll thread are serialised     *)
(* (spec.md 5, send and poll from different threads is the expected use).  *)
CoreExclusive == Cardinality(inCore) <= 1

(* mctp_mmbi_send, unlike mctp_transport_send, serialises with the         *)
(* delivery of poll under mmbi->lock: the MMBI API keeps CoreExclusive.    *)
MmbiCoreExclusive == api = "mmbi" => CoreExclusive

NoHalfInitContext ==
  appPc \in {"ready", "tx", "setcb", "joining"} => handle /\ txStorage

(* mctp_transport_init, unlike mctp_mmbi_context_init, tests the return    *)
(* code of mctp_mmbi_init_device: the transport API keeps NoHalfInitContext.*)
TransportNoHalfInit == api = "transport" => NoHalfInitContext

(* When the application holds no context, no device handle is left open    *)
(* (spec.md 3 and 4.4: teardown and failed init release the binding's      *)
(* resources); otherwise the exclusive open makes the next init fail.      *)
HandleReleased ==
  appPc = "idle" => handlesOpen = 0

(* An init that gave up on the device made exactly the configured number   *)
(* of attempts, 5 for the MMBI API (spec.md 8) and 1 for mctp_transport,   *)
(* not fewer and not one more.                                             *)
OpenAttemptsExact ==
  (appPc = "idle" /\ result = "null" /\ attempts > 0 /\ openRc = "fail")
    => attempts = OpenTries

(* The receive callback is always called with the user pointer that was    *)
(* registered together with it (spec.md 4.4: set_receive_callback(cb,     *)
(* user_data) makes the trampoline forward user_data to cb).  The two     *)
(* unlocked stores of set_rx_callback race the trampoline's reads on the   *)
(* poll thread.                                                            *)
CallbackGetsItsUserData ==
  lastCall # <<>> => lastCall[1] = lastCall[2]
=============================================================================
