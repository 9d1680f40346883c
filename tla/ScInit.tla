------------------------------ MODULE ScInit ------------------------------
(***************************************************************************)
(* The registry of YANG models (src/plugins/sc_init.c, sc_init.h): every   *)
(* model links an init and an exit function into two lists from a          *)
(* constructor, sr_plugin_init_cb() runs the init functions, which         *)
(* subscribe the model's callbacks with sysrepo, sr_plugin_cleanup_cb()    *)
(* runs the exit functions, and destructors unlink them on unloading.      *)
(*                                                                         *)
(* No init function calls another one: nothing in the repository uses the  *)
(* macros sc_call_init_function() and sc_call_exit_function(), and they    *)
(* are not modelled.                                                       *)
(*                                                                         *)
(* sysrepo-plugind is outside the repository: it calls the initialisation  *)
(* again after an error, the cleanup once after a success, and unloads.    *)
(***************************************************************************)
EXTENDS Naturals, SequencesExt

CONSTANTS
  Models,    \* the YANG models that register
  NPoints    \* NPoints[m]: the number of subscriptions m's init makes

NoModel == ""

ASSUME ScInitAssumption ==
  /\ NoModel \notin Models
  /\ NPoints \in [Models -> Nat \ {0}]

VARIABLES
  registrations,  \* by tag, the linked list, newest first
  loaded,         \* by tag, models whose constructor, not destructor, has run
  is_called,      \* by tag, the models whose flag is set
  pc,             \* where the plugin stands
  p,              \* rest of the list sc_call_all_*_function() walks
  cur,            \* the model whose init function runs, or NoModel
  subs,           \* by model, subscriptions made
  private_ctx,    \* the subscription context was handed to the daemon
  calls,          \* history: by model, times its init function was entered
  failed          \* history: models whose init function returned an error

vars == <<registrations, loaded, is_called, pc, p, cur, subs, private_ctx,
          calls, failed>>

Tags == {"init", "exit"}

Init ==
  /\ registrations = [t \in Tags |-> <<>>]
  /\ loaded = [t \in Tags |-> {}]
  /\ is_called = [t \in Tags |-> {}]
  /\ pc = "loading"
  /\ p = <<>> /\ cur = NoModel
  /\ subs = [m \in Models |-> 0]
  /\ private_ctx = FALSE
  /\ calls = [m \in Models |-> 0]
  /\ failed = {}

-----------------------------------------------------------------------------
(***************************************************************************)
(* Loading: constructors run in any order and push at the head.            *)
(***************************************************************************)
Construct(t, m) ==
  /\ pc = "loading" /\ m \notin loaded[t]
  /\ registrations' = [registrations EXCEPT ![t] = <<m>> \o @]
  /\ loaded' = [loaded EXCEPT ![t] = @ \cup {m}]
  /\ UNCHANGED <<is_called, pc, p, cur, subs, private_ctx, calls, failed>>

(***************************************************************************)
(* sr_plugin_init_cb() as far as the registry goes, first call or retry.   *)
(***************************************************************************)
CallAllInit ==
  /\ \/ pc = "loading" /\ \A t \in Tags : loaded[t] = Models
     \/ pc = "init_failed"
  /\ pc' = "init"
  /\ p' = registrations["init"]
  /\ UNCHANGED <<registrations, loaded, is_called, cur, subs, private_ctx,
                 calls, failed>>

\* mutant: the flag is set after the call
EnterInitFlagLate(m) ==
  /\ is_called' = is_called
  /\ calls' = [calls EXCEPT ![m] = @ + 1]
  /\ cur' = m

\* Entering m's init function: the flag is set before the call.
EnterInit(m) ==
  /\ is_called' = [is_called EXCEPT !["init"] = @ \cup {m}]
  /\ calls' = [calls EXCEPT ![m] = @ + 1]
  /\ cur' = m

\* while (p != NULL): an element not called yet is called ...
AllInitCall ==
  /\ pc = "init" /\ cur = NoModel /\ p # <<>>
  /\ Head(p) \notin is_called["init"]
  /\ EnterInit(Head(p))
  /\ p' = Tail(p)
  /\ UNCHANGED <<registrations, loaded, pc, subs, private_ctx, failed>>

\* mutant: the walk does not move past an element already called
AllInitSkipStays ==
  /\ pc = "init" /\ cur = NoModel /\ p # <<>>
  /\ Head(p) \in is_called["init"]
  /\ UNCHANGED vars

\* ... and any other is passed over.
AllInitSkip ==
  /\ pc = "init" /\ cur = NoModel /\ p # <<>>
  /\ Head(p) \in is_called["init"]
  /\ p' = Tail(p)
  /\ UNCHANGED <<registrations, loaded, is_called, pc, cur, subs,
                 private_ctx, calls, failed>>

(***************************************************************************)
(* The end of the list: SR_ERR_OK, and private_ctx is set.  The call still *)
(* fails when no VPP is found then (get_vpp_pid() < 0, SR_ERR_DISCONNECT). *)
(***************************************************************************)
AllInitDone ==
  /\ pc = "init" /\ cur = NoModel /\ p = <<>>
  /\ pc' \in {"ready", "init_failed"}
  /\ private_ctx' = TRUE
  /\ UNCHANGED <<registrations, loaded, is_called, p, cur, subs, calls,
                 failed>>

\* mutant: one subscription too many
SubscribePointOffByOne ==
  /\ pc = "init" /\ cur # NoModel
  /\ subs' = [subs EXCEPT ![cur] = @ + 1]
  /\ cur' = IF subs[cur] = NPoints[cur] THEN NoModel ELSE cur
  /\ UNCHANGED <<registrations, loaded, is_called, pc, p, private_ctx, calls,
                 failed>>

\* mutant: the function returns after the first subscription
SubscribePointOnce ==
  /\ pc = "init" /\ cur # NoModel
  /\ subs' = [subs EXCEPT ![cur] = @ + 1]
  /\ cur' = NoModel
  /\ UNCHANGED <<registrations, loaded, is_called, pc, p, private_ctx, calls,
                 failed>>

\* The subscriptions of an init function, in order; it returns after the last.
SubscribePoint ==
  /\ pc = "init" /\ cur # NoModel
  /\ subs' = [subs EXCEPT ![cur] = @ + 1]
  /\ cur' = IF subs[cur] + 1 = NPoints[cur] THEN NoModel ELSE cur
  /\ UNCHANGED <<registrations, loaded, is_called, pc, p, private_ctx, calls,
                 failed>>

\* One subscription fails: the init function and sc_call_all_init_function()
\* return the error; what was subscribed stays.
SubscribeFails ==
  /\ pc = "init" /\ cur # NoModel
  /\ failed' = failed \cup {cur}
  /\ cur' = NoModel /\ p' = <<>>
  /\ pc' = "init_failed"
  /\ UNCHANGED <<registrations, loaded, is_called, subs, private_ctx, calls>>

-----------------------------------------------------------------------------
(***************************************************************************)
(* sr_plugin_cleanup_cb(): exit functions, which are empty, then the       *)
(* subscriptions of private_ctx.                                           *)
(***************************************************************************)
CallAllExit ==
  /\ pc = "ready"
  /\ pc' = "exit"
  /\ p' = registrations["exit"]
  /\ UNCHANGED <<registrations, loaded, is_called, cur, subs, private_ctx,
                 calls, failed>>

AllExitNext ==
  /\ pc = "exit" /\ p # <<>>
  /\ is_called' = [is_called EXCEPT !["exit"] = @ \cup {Head(p)}]
  /\ p' = Tail(p)
  /\ UNCHANGED <<registrations, loaded, pc, cur, subs, private_ctx, calls,
                 failed>>

Unsubscribe ==
  /\ pc = "exit" /\ p = <<>>
  /\ subs' = IF private_ctx THEN [m \in Models |-> 0] ELSE subs
  /\ pc' = "unloading"
  /\ UNCHANGED <<registrations, loaded, is_called, p, cur, private_ctx,
                 calls, failed>>

(***************************************************************************)
(* Unloading: destructors, in any order.  The head of the list has a case  *)
(* of its own; the list is dereferenced without a check.                   *)
(***************************************************************************)
\* mutant: the case of the head is missing
UnlinkNotHead(list, m) ==
  <<Head(list)>> \o RemoveFirst(Tail(list), m)

Unlink(list, m) == RemoveFirst(list, m)

Destruct(t, m) ==
  /\ pc = "unloading" /\ m \in loaded[t]
  /\ loaded' = [loaded EXCEPT ![t] = @ \ {m}]
  /\ IF registrations[t] = <<>>
       THEN pc' = "crashed" /\ UNCHANGED registrations
       ELSE /\ registrations' = [registrations EXCEPT ![t] = Unlink(@, m)]
            /\ UNCHANGED pc
  /\ UNCHANGED <<is_called, p, cur, subs, private_ctx, calls, failed>>

-----------------------------------------------------------------------------
InitStep ==
  \/ AllInitCall \/ AllInitSkip \/ AllInitDone
  \/ SubscribePoint \/ SubscribeFails

Next ==
  \/ \E t \in Tags, m \in Models : Construct(t, m) \/ Destruct(t, m)
  \/ CallAllInit \/ InitStep
  \/ CallAllExit \/ AllExitNext \/ Unsubscribe

Spec == Init /\ [][Next]_vars

\* The init functions run to their end; sysrepo answers every subscription.
FairSpec == Spec /\ WF_vars(InitStep)

-----------------------------------------------------------------------------
(***************************************************************************)
(* Properties                                                              *)
(***************************************************************************)

\* Types of the variables.  A model never has more subscriptions than its
\* init function makes.
TypeOK ==
  /\ registrations \in [Tags -> Seq(Models)]
  /\ loaded \in [Tags -> SUBSET Models]
  /\ is_called \in [Tags -> SUBSET Models]
  /\ pc \in {"loading", "init", "init_failed", "ready", "exit", "unloading",
            "crashed"}
  /\ p \in Seq(Models)
  /\ cur \in Models \cup {NoModel}
  /\ \A m \in Models : subs[m] \in 0..NPoints[m]
  /\ private_ctx \in BOOLEAN
  /\ calls \in [Models -> Nat]
  /\ failed \subseteq Models

(***************************************************************************)
(* No init function is entered twice, however often the initialisation is  *)
(* retried and wherever the call before stopped: a second call would       *)
(* subscribe the same callbacks again.                                     *)
(***************************************************************************)
CalledOnce == \A m \in Models : calls[m] <= 1

(***************************************************************************)
(* An initialisation that succeeds, at once or after retries, leaves every *)
(* model with all its subscriptions, except the models whose own init      *)
(* function once returned an error: is_called keeps a retry from them.  A  *)
(* failure of one model costs no other model a subscription.               *)
(***************************************************************************)
ReadyComplete ==
  pc = "ready" => \A m \in Models \ failed : subs[m] = NPoints[m]

(***************************************************************************)
(* The lists hold exactly the functions of the code that is loaded, so no  *)
(* walk reaches a function of unloaded code and no destructor dereferences *)
(* an empty list.                                                          *)
(***************************************************************************)
RegistryExact ==
  /\ \A t \in Tags : /\ Range(registrations[t]) = loaded[t]
                     /\ IsInjective(registrations[t])
  /\ pc # "crashed"

\* Every run of sc_call_all_init_function(), first or retry, returns.
InitReturns == pc = "init" ~> pc \in {"ready", "init_failed"}
=============================================================================
