---------------------------- MODULE LSRefinement ----------------------------
(***************************************************************************)
(* LSServer implements LoggerOwnership.  A request counts as unanswered    *)
(* from the call until the server has sent, or failed to send, the reply:  *)
(* while it is being served it is m, even if its caller has died.          *)
(***************************************************************************)
EXTENDS LSServer

knownBar == DOMAIN g_loggers

ownerBar == [l \in Logger |-> IF IsOpen(l) THEN g_loggers[l].state.opened_by ELSE NONE]

reqBar == [c \in Client |-> IF source = c THEN m ELSE call[c]]

ansBar == [c \in Client |-> IF source = c THEN result ELSE NONE]

Contract == INSTANCE LoggerOwnership
            WITH known <- knownBar, owner <- ownerBar, req <- reqBar, ans <- ansBar

\* The server is a table of owners: each request takes effect at one instant between
\* call and answer, and every answer is the one that the table then calls for,
\* whatever descriptors, files, the queue, dying callers and initialisations do.
ServesContract == Contract!Safety

\* It also never stops serving: under the server's own weak fairness each single
\* request is performed and each answer delivered.
ServesFairly == Contract!Spec

=============================================================================
