--------------------------- MODULE MCObexSession ---------------------------
(***************************************************************************)
(* Model values for the runs of ObexSession.                               *)
(***************************************************************************)
EXTENDS ObexSession

\* Requests and responses without headers, of two packets, and with headers
\* flagged OBEX_FL_SUSPEND, not the last one, some before a stream.
MCQueues ==
  {<<>>, <<"header", "header">>, <<"suspend", "suspend", "header">>,
   <<"suspend", "stream">>}
MCShortQueues == {<<>>, <<"header", "header">>}
\* Responses with a stream, and one that lasts while an ABORT is on its way.
MCLastingQueues == {<<"header", "stream">>, <<"header", "header", "header">>}
MCOneQueue == {<<"header", "stream">>}

\* Small stand-ins for 255, 1024 and the like: the client announces a larger
\* receive MTU than the server may send, and the server a smaller one.
MCMtuRx == [h \in Handles |-> IF h = Cli THEN 5 ELSE 3]
MCMtuTxMax == [h \in Handles |-> IF h = Cli THEN 5 ELSE 4]
=============================================================================
