--------------------------- MODULE LoggerOwnership ---------------------------
(***************************************************************************)
(* What the log server promises its callers: a table from loggers to the   *)
(* process that has each one open, on which every request takes effect in  *)
(* one instant between the call and its answer.  Which waiting request is  *)
(* next, the list, files, descriptors and the initialisation flag are the  *)
(* business of an implementation (LSServer, by way of LSRefinement).       *)
(*                                                                         *)
(* An initialisation, on behalf of any request, closes every logger.  A    *)
(* caller killed before its request is taken up withdraws it; one killed   *)
(* later does not undo its effect.                                         *)
(***************************************************************************)
CONSTANTS Client, Logger, Request, NONE

VARIABLES
  known,   \* the loggers the server has been configured with
  owner,   \* logger -> process that has it open, or NONE
  req,     \* client -> request not yet answered, or NONE
  ans      \* client -> answer not yet delivered, or NONE

vars == <<known, owner, req, ans>>

Closed == [l \in Logger |-> NONE]

Init ==
  /\ known = {} /\ owner = Closed
  /\ req = [c \in Client |-> NONE] /\ ans = [c \in Client |-> NONE]

Invoke(c) ==
  /\ req[c] = NONE
  /\ \E r \in Request : req' = [req EXCEPT ![c] = r]
  /\ UNCHANGED <<known, owner, ans>>

Withdraw(c) ==
  /\ req[c] # NONE /\ ans[c] = NONE
  /\ req' = [req EXCEPT ![c] = NONE]
  /\ UNCHANGED <<known, owner, ans>>

Respond(c) ==
  /\ ans[c] # NONE
  /\ req' = [req EXCEPT ![c] = NONE] /\ ans' = [ans EXCEPT ![c] = NONE]
  /\ UNCHANGED <<known, owner>>

-----------------------------------------------------------------------------
(* The effect of a request, with the answer it is given *)

Asks(c, types) == req[c] # NONE /\ ans[c] = NONE /\ req[c].m_type \in types

Answer(c, a) == ans' = [ans EXCEPT ![c] = a] /\ UNCHANGED req

Same == UNCHANGED <<known, owner>>

Reset == known' \in SUBSET Logger /\ owner' = Closed

\* Before the effect of any other request, when the server is not yet initialised.
Initialise(c) ==
  /\ req[c] # NONE /\ ans[c] = NONE
  /\ Reset /\ UNCHANGED <<req, ans>>

ExplicitInitialise(c) ==
  /\ Asks(c, {"LS_INITIALIZE"})
  /\ \E a \in {"OK", "EINVAL", "ENOMEM", "EIO", "EPERM", "LS_ERR_EXTERNAL"} :
       /\ Reset /\ Answer(c, a)
       /\ a \notin {"OK", "LS_ERR_EXTERNAL"} => known' = {}

\* A malformed request has no effect; one that could not initialise the server
\* leaves everything closed.
Refuse(c) ==
  /\ Asks(c, {"UNDEFINED", "LS_START_LOG", "LS_CLOSE_LOG", "LS_WRITE_LOG",
              "LS_SET_SEVERITY", "LS_CLEAR_LOG", "LS_CLEAR_ALL"})
  /\ \/ Same /\ Answer(c, "EINVAL")
     \/ Reset /\ Answer(c, "LS_ERR_INIT_FAILED")

NoSuchLogger(c) ==
  /\ Asks(c, {"LS_START_LOG", "LS_CLOSE_LOG", "LS_WRITE_LOG", "LS_SET_SEVERITY", "LS_CLEAR_LOG"})
  /\ req[c].logger \notin known
  /\ Same /\ Answer(c, "LS_ERR_NO_SUCH_LOGGER")

\* A logger that is open, for whomever, cannot be started, changed or cleared.
Busy(c) ==
  /\ Asks(c, {"LS_START_LOG", "LS_SET_SEVERITY", "LS_CLEAR_LOG"})
  /\ req[c].logger \in known /\ owner[req[c].logger] # NONE
  /\ Same /\ Answer(c, "LS_ERR_LOGGER_OPEN")

\* Starting a closed logger makes the caller its owner.  With LS_ERR_EXTERNAL it may
\* or may not have done so.
Start(c) ==
  LET l == req[c].logger IN
  /\ Asks(c, {"LS_START_LOG"})
  /\ l \in known /\ owner[l] = NONE /\ UNCHANGED known
  /\ \/ /\ owner' = [owner EXCEPT ![l] = c]
        /\ \E a \in {"OK", "LS_ERR_EXTERNAL"} : Answer(c, a)
     \/ owner' = owner /\ Answer(c, "LS_ERR_EXTERNAL")

NotOwner(c) ==
  LET l == req[c].logger IN
  /\ Asks(c, {"LS_CLOSE_LOG", "LS_WRITE_LOG"})
  /\ l \in known /\ owner[l] # c
  /\ Same /\ Answer(c, IF owner[l] = NONE THEN "LS_ERR_LOGGER_NOT_OPEN"
                                          ELSE "LS_ERR_PERMISSION_DENIED")

Close(c) ==
  LET l == req[c].logger IN
  /\ Asks(c, {"LS_CLOSE_LOG"})
  /\ l \in known /\ owner[l] = c
  /\ owner' = [owner EXCEPT ![l] = NONE] /\ UNCHANGED known
  /\ Answer(c, "OK")

\* Only the owner's write can be answered OK.
Write(c) ==
  /\ Asks(c, {"LS_WRITE_LOG"})
  /\ req[c].logger \in known /\ owner[req[c].logger] = c
  /\ Same /\ \E a \in {"OK", "EFAULT", "LS_ERR_EXTERNAL"} : Answer(c, a)

Manage(c) ==
  /\ Asks(c, {"LS_SET_SEVERITY", "LS_CLEAR_LOG"})
  /\ req[c].logger \in known /\ owner[req[c].logger] = NONE
  /\ Same
  /\ \/ Answer(c, "OK")
     \/ req[c].m_type = "LS_CLEAR_LOG" /\ Answer(c, "LS_ERR_EXTERNAL")

ClearAll(c) ==
  /\ Asks(c, {"LS_CLEAR_ALL"}) /\ Same
  /\ \/ owner = Closed /\ Answer(c, "OK")
     \/ Answer(c, "LS_ERR_LOGGER_OPEN")

Perform(c) ==
  \/ ExplicitInitialise(c) \/ Refuse(c) \/ NoSuchLogger(c) \/ Busy(c) \/ Start(c)
  \/ NotOwner(c) \/ Close(c) \/ Write(c) \/ Manage(c) \/ ClearAll(c)

Next ==
  \E c \in Client : Invoke(c) \/ Withdraw(c) \/ Initialise(c) \/ Perform(c) \/ Respond(c)

Safety == Init /\ [][Next]_vars

\* Every request is performed, unless withdrawn, and every answer is delivered.
\* Perform(c) is enabled while c's request is unperformed and Respond(c) while an
\* answer is due, so this is weak fairness of the two, written without ENABLED.
Fairness ==
  \A c \in Client :
    /\ []<><<Perform(c)>>_vars \/ []<>(req[c] = NONE \/ ans[c] # NONE)
    /\ []<><<Respond(c)>>_vars \/ []<>(ans[c] = NONE)

Spec == Safety /\ Fairness

=============================================================================
