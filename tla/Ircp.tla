-------------------------------- MODULE Ircp --------------------------------
(***************************************************************************)
(* ircp (src/ircp), the program that copies files and directories to       *)
(* another machine, at both ends: `ircp file...` walks through its         *)
(* arguments and does one request after the other, `ircp -r` receives what *)
(* it is sent into its inbox.                                              *)
(*                                                                         *)
(* The library is between them as its applications see it (ObexSession     *)
(* has its engines): one request at a time, of which each packet is        *)
(* answered before the next is sent. What the program does when a request  *)
(* fails, when an answer is late and when a call of the system fails is    *)
(* the matter here.                                                        *)
(*                                                                         *)
(* Names are plain: no slash, and neither empty nor "." nor "..", as those *)
(* that the client sends. A file is a number of chunks; which of them go   *)
(* into one packet is left open. A node of the local file system has a     *)
(*   kind       "file", "dir", or "other" (a link, a device, nothing)      *)
(*   name                                                                  *)
(*   chunks     of a file                                                  *)
(*   entries    of a directory, in the order they are read                 *)
(***************************************************************************)
EXTENDS Naturals, FiniteSets, SequencesExt

CONSTANTS
  Nodes,       \* the nodes of the file system the client sees
  ArgLists,    \* lists of arguments the client may be called with
  Here,        \* the directory the client is called in
  None,        \* no request, no message, no name
  MaxFaults    \* bound: kinds of faults in one behaviour

Files == {n \in Nodes : n.kind = "file"}
Dirs  == {n \in Nodes : n.kind = "dir"}

ASSUME NodesAssumption ==
  /\ \A n \in Nodes : n.kind \in {"file", "dir", "other"}
  /\ \A n \in Files : n.chunks \in Nat
  /\ \A n \in Dirs : n.entries \in Seq(Nodes)

(* The names that files and directories have. *)
Names == {n.name : n \in Files \union Dirs}

(* The operations of the requests, and the answers to them. *)
Ops   == {"CONNECT", "DISCONNECT", "PUT", "DOWN", "UP"}
Codes == {"CONTINUE", "SUCCESS", "BAD_REQUEST", "FORBIDDEN"}

(* Visits, packets and open files are told from None. *)
ASSUME NoneAssumption ==
  /\ None \notin Ops \union Codes \union Names
  /\ None \notin [op : Ops \union {"SKIP"}, file : Nodes \union {None}, at : Seq(Names),
                  checked : BOOLEAN]
  /\ None \notin [op : Ops, name : Names \union {None},
                  data : Seq(Names \X Nat), end : BOOLEAN, final : BOOLEAN]
  /\ None \notin [file : Files, next : Nat]
ASSUME ArgsAssumption == ArgLists \subseteq Seq(Nodes) /\ Here \in Dirs
ASSUME BoundAssumption == MaxFaults \in Nat

VARIABLES
  \* the client program
  pc,          \* "connect", "put", "disconnect", "done"
  left,        \* arguments not looked at yet
  todo,        \* visits left of the argument at hand, as far as they are known
  step,        \* the request ircp waits for, or None
  finished, success,
  fd,          \* the file being sent and its next chunk, or None
  reported,    \* history: the visits reported as sent
  strayed,     \* history: a directory was not left as it was entered
  \* the client's library and the link
  object,      \* the request in progress, or None
  link,        \* "none", "up", "down"
  toServer, toClient,
  \* the server program and its library
  spc,         \* "running", "ended"
  srv,         \* fd, cwd, dirdepth, finished, inbox, dirs: the program,
               \* the files it has stored and the directories it has made;
               \* cmd, name, rsp: its object
  faults       \* history: kinds of faults that happened

clientVars == <<pc, left, todo, step, finished, success, fd, reported, strayed>>
vars == <<clientVars, object, link, toServer, toClient, spc, srv, faults>>

Faults == {"timeout", "read", "open", "chdir", "link", "create", "write"}

Fault(kind) ==
  /\ Cardinality(faults \union {kind}) <= MaxFaults
  /\ faults' = faults \union {kind}

(***************************************************************************)
(* Walking through the arguments.                                          *)
(***************************************************************************)
(* A visit: a file to put, a directory to go down into or the one to leave, *)
(* the directory it is met in, and whether the walk ends when it fails.    *)
Visit(op, node, at) == [op |-> op, file |-> node, at |-> at, checked |-> TRUE]
Put(file, at) == Visit("PUT", file, at)
Down(dir, at) == Visit("DOWN", dir, at)
Up(at) == Visit("UP", None, at)

(* visit_dir, an entry: what is neither a file nor a directory is skipped. *)
Entry(e, at) ==
  CASE e.kind = "file" -> Put(e, at)
    [] e.kind = "dir" -> Down(e, at)
    [] OTHER -> Visit("SKIP", e, at)

(* Variant: the directory is not left. *)
visit_dir_inside(dir, at) ==
  [k \in 1..Len(dir.entries) |-> Entry(dir.entries[k], at)]

(* visit_dir of the directory `at` once it is entered, and the way out of  *)
(* it; the directories in it are read when they are entered.               *)
visit_dir(dir, at) ==
  Append([k \in 1..Len(dir.entries) |-> Entry(dir.entries[k], at)], Up(at))

(* The visits that follow when v went well. *)
Follows(v) ==
  IF v.op = "DOWN" THEN visit_dir(v.file, Append(v.at, v.file.name)) ELSE <<>>

(* ircp_put: the server is told first to go into the argument's directory; *)
(* the answer to that is not looked at, and visit_all_files has ".".       *)
ircp_put(arg) ==
  CASE arg.kind = "file" -> <<Put(arg, <<>>)>>
    [] arg.kind = "dir" -> <<[Down(arg, <<>>) EXCEPT !.checked = FALSE]>>
    [] OTHER -> <<>>

(***************************************************************************)
(* Requests.                                                               *)
(***************************************************************************)
Chunks(file) == [k \in 1..file.chunks |-> <<file.name, k>>]

Packet(op, name, data, end, final) ==
  [op |-> op, name |-> name, data |-> data, end |-> end, final |-> final]

(* Variant: the end of the file is found in a packet of its own only. *)
PutPacketsLate(name, f) ==
  {[p |-> Packet("PUT", name, SubSeq(Chunks(f.file), f.next, m), FALSE, FALSE),
    fd |-> [f EXCEPT !.next = m + 1]] : m \in f.next..f.file.chunks}

(* cli_fillstream, as often as it is called for a packet of a PUT: with    *)
(* all chunks up to m and, if they are all, the end, which closes the file *)
(* and makes the packet the last.                                          *)
PutPackets(name, f) ==
  {[p |-> Packet("PUT", name, SubSeq(Chunks(f.file), f.next, m), FALSE, FALSE),
    fd |-> [f EXCEPT !.next = m + 1]] : m \in f.next..f.file.chunks}
  \union
  {[p |-> Packet("PUT", name, SubSeq(Chunks(f.file), f.next, f.file.chunks),
                 TRUE, TRUE),
    fd |-> None]}

(* OBEX_EV_LINKERR at the client, which frees the object. *)
Linkerr ==
  /\ object' = None
  /\ finished' = TRUE
  /\ success' = FALSE

(* A packet of request r is sent with what is read from file f; name is    *)
(* that of the file or directory, in the first packet. Reading from a file *)
(* that is closed fails; then, and when the link is down, nothing is sent. *)
Sends(r, name, f) ==
  \/ /\ link = "up"
     /\ object' = r
     /\ \/ /\ r.op = "PUT" /\ f # None
           /\ \E x \in PutPackets(name, f) : toServer' = x.p /\ fd' = x.fd
        \/ /\ r.op # "PUT"
           /\ toServer' = Packet(r.op, name, <<>>, FALSE, TRUE)
           /\ fd' = f
     /\ UNCHANGED <<success, faults>>
     /\ finished' = FALSE
  \/ /\ link = "up" /\ r.op = "PUT"
     /\ IF f = None THEN UNCHANGED faults ELSE Fault("read")
     /\ fd' = None
     /\ Linkerr
     /\ UNCHANGED toServer
  \/ /\ link # "up"
     /\ fd' = f
     /\ Linkerr
     /\ UNCHANGED <<toServer, faults>>

(* cli_sync_request: while the library has an earlier request in progress  *)
(* it refuses, which is not looked at, and ircp waits all the same.        *)
cli_sync_request(r, name, f) ==
  /\ step' = r
  /\ IF object = None THEN Sends(r, name, f)
     ELSE /\ finished' = FALSE
          /\ fd' = f
          /\ UNCHANGED <<success, object, toServer, faults>>

Connect == Visit("CONNECT", None, <<>>)
Disconnect == Visit("DISCONNECT", None, <<>>)

(***************************************************************************)
(* The client.                                                             *)
(***************************************************************************)
Calls == spc = "running" /\ link = "none"

(* ircp_cli_connect, the transport first. *)
TransportConnects ==
  /\ pc = "connect" /\ step = None /\ link = "none"
  /\ \/ /\ Calls
        /\ link' = "up"
        /\ UNCHANGED <<pc, faults>>
     \/ /\ IF Calls THEN Fault("link") ELSE UNCHANGED faults
        /\ pc' = "done"
        /\ UNCHANGED link
  /\ UNCHANGED <<left, todo, step, finished, success, fd, reported, strayed,
                 object, toServer, toClient, spc, srv>>

ircp_cli_connect ==
  /\ pc = "connect" /\ step = None /\ link # "none"
  /\ cli_sync_request(Connect, None, fd)
  /\ UNCHANGED <<pc, left, todo, reported, strayed, link, toClient, spc, srv>>

(* ircp_put of the next argument: when the directory cannot be entered     *)
(* that is not looked at, and "." is the one ircp was called in. A block   *)
(* device or a socket has the bit of S_IFDIR in its mode and is taken for  *)
(* a directory, which is never entered.                                    *)
NextArgument ==
  /\ pc = "put" /\ step = None /\ todo = <<>> /\ left # <<>>
  /\ left' = Tail(left)
  /\ \/ todo' = ircp_put(Head(left)) /\ UNCHANGED faults
     \/ /\ Head(left).kind = "dir"
        /\ Fault("chdir")
        /\ todo' = ircp_put(Here)
     \/ /\ Head(left).kind = "other"
        /\ todo' = ircp_put(Here)
        /\ UNCHANGED faults
  /\ UNCHANGED <<pc, step, finished, success, fd, reported, strayed, object,
                 link, toServer, toClient, spc, srv>>

(* A visit has ended: the walk through the argument goes on or is left, in *)
(* a directory without the visits that lead out of it.                     *)
Visited(v, ok) ==
  /\ todo' = IF ok \/ ~v.checked THEN Follows(v) \o Tail(todo) ELSE <<>>
  /\ strayed' = (strayed \/ (~ok /\ v.checked /\ v.at # <<>>))

(* ircp_visit, unless the file cannot be opened or the directory not read, *)
(* or there is nothing to do.                                              *)
ircp_visit ==
  /\ pc = "put" /\ step = None /\ todo # <<>>
  /\ LET v == Head(todo) IN
     \/ /\ v.op = "PUT"
        /\ cli_sync_request(v, v.file.name, [file |-> v.file, next |-> 1])
        /\ UNCHANGED <<todo, strayed>>
     \/ /\ v.op = "PUT" \/ v.at # <<>>
        /\ Fault("open")
        /\ Visited(v, FALSE)
        /\ UNCHANGED <<step, finished, success, fd, object, toServer>>
     \/ /\ v.op \in {"DOWN", "UP"}
        /\ cli_sync_request(v, IF v.op = "DOWN" THEN v.file.name ELSE None, fd)
        /\ UNCHANGED <<todo, strayed>>
     \/ /\ v.op = "SKIP"
        /\ Visited(v, TRUE)
        /\ UNCHANGED <<step, finished, success, fd, object, toServer, faults>>
  /\ UNCHANGED <<pc, left, reported, link, toClient, spc, srv>>

ircp_cli_disconnect ==
  /\ pc = "put" /\ step = None /\ todo = <<>> /\ left = <<>>
  /\ pc' = "disconnect"
  /\ cli_sync_request(Disconnect, None, fd)
  /\ UNCHANGED <<left, todo, reported, strayed, link, toClient, spc, srv>>

(* cli_obex_event, for what the server answers while ircp waits. *)
HandleInput ==
  /\ step # None /\ ~finished /\ toClient # None
  /\ toClient' = None
  /\ IF toClient = "CONTINUE" THEN Sends(object, None, fd)
     ELSE /\ object' = None
          /\ finished' = TRUE
          /\ success' = (toClient = "SUCCESS")
          /\ UNCHANGED <<fd, toServer, faults>>
  /\ UNCHANGED <<pc, left, todo, step, reported, strayed, link, spc, srv>>

(* cli_sync_request returns: what its caller does. *)
Returns(ok) ==
  /\ step' = None
  /\ CASE step.op = "CONNECT" ->
            /\ pc' = IF ok THEN "put" ELSE "done"
            /\ link' = IF ok THEN link ELSE "down"
            /\ UNCHANGED <<todo, fd, reported, strayed>>
       [] step.op = "DISCONNECT" ->
            /\ pc' = "done" /\ link' = "down"
            /\ UNCHANGED <<todo, fd, reported, strayed>>
       [] step.op = "PUT" ->
            /\ fd' = None
            /\ reported' = IF ok THEN reported \union {step} ELSE reported
            /\ Visited(step, ok)
            /\ UNCHANGED <<pc, link>>
       [] OTHER ->
            /\ Visited(step, ok)
            /\ UNCHANGED <<pc, link, fd, reported>>
  /\ UNCHANGED <<left, toServer, toClient, spc, srv>>

Done ==
  /\ step # None /\ finished
  /\ Returns(success)
  /\ UNCHANGED <<finished, success, object, faults>>

(* Twenty seconds without an answer: the request goes on all the same. *)
TimesOut ==
  /\ step # None /\ ~finished /\ toClient = None /\ link = "up"
  /\ Fault("timeout")
  /\ Returns(FALSE)
  /\ UNCHANGED <<finished, success, object>>

LinkLost ==
  /\ step # None /\ ~finished /\ toClient = None /\ link = "down"
  /\ Linkerr
  /\ Returns(FALSE)
  /\ UNCHANGED faults

(***************************************************************************)
(* The server.                                                             *)
(***************************************************************************)
(* ircp_open_safe makes a file of that name or, when there is one, of      *)
(* another; in either case it is kept here by the name that was asked for. *)
ircp_open_safe(s) ==
  [s EXCEPT !.fd = Len(s.inbox) + 1,
            !.inbox = Append(@, [dir |-> s.cwd, name |-> s.name, data |-> <<>>])]

(* Variant: the name asked for is still there the next time. *)
new_file_again(s, creates) ==
  IF s.name = None THEN [s EXCEPT !.rsp = "BAD_REQUEST"]
  ELSE IF creates THEN ircp_open_safe(s)
  ELSE s

(* new_file: the name is looked for in the headers not yet looked at;      *)
(* `creates` says whether the file can be made.                            *)
new_file(s, creates) ==
  IF s.name = None THEN [s EXCEPT !.rsp = "BAD_REQUEST"]
  ELSE IF creates THEN [ircp_open_safe(s) EXCEPT !.name = None]
  ELSE [s EXCEPT !.name = None]

(* Variant: the file stays the current one at the end of the stream. *)
srv_receive_open(s, data, creates, writes) ==
  LET t == IF s.fd = 0 THEN new_file(s, creates) ELSE s
  IN  IF t.fd # 0 /\ writes THEN [t EXCEPT !.inbox[t.fd].data = @ \o data]
      ELSE t

(* ircp_srv_receive with stream data, or at the end of the stream with     *)
(* none. What write returns is not looked at.                              *)
ircp_srv_receive(s, data, creates, writes) ==
  LET t == IF s.fd = 0 THEN new_file(s, creates) ELSE s
  IN  IF t.fd = 0 THEN t
      ELSE IF data = <<>> THEN [t EXCEPT !.fd = 0]
      ELSE IF writes THEN [t EXCEPT !.inbox[t.fd].data = @ \o data]
      ELSE t

(* The calls of it for one packet: for its data, then for the end. *)
Stream(s, p, creates, writes) ==
  LET t == IF p.data = <<>> THEN s
           ELSE ircp_srv_receive(s, p.data, creates, writes)
  IN  IF p.end THEN ircp_srv_receive(t, <<>>, creates, writes) ELSE t

Refuse(s) == [s EXCEPT !.rsp = "FORBIDDEN", !.finished = TRUE]

(* ircp_checkdir: a directory that is not there is made, unless a file has *)
(* its name; a file that found the directory there has another one.        *)
(* `creates` says whether the directory can be made and gone into.         *)
ircp_checkdir(s, creates) ==
  /\ creates
  /\ \/ Append(s.cwd, s.name) \in s.dirs
     \/ ~\E f \in ToSet(s.inbox) : f.dir = s.cwd /\ f.name = s.name

(* The server goes down into the directory and has it from then on. *)
Enter(s) ==
  [s EXCEPT !.cwd = Append(@, s.name), !.dirdepth = @ + 1,
            !.dirs = @ \union {Append(s.cwd, s.name)}]

(* Variant: the depth is counted although the directory was not made. *)
GoDownCounted(s, creates) ==
  IF ~ircp_checkdir(s, creates)
    THEN [Refuse(s) EXCEPT !.dirdepth = @ + 1]
    ELSE Enter(s)

(* ircp_srv_setpath: up, but not out of the inbox, or down. The server     *)
(* ends when it has refused.                                               *)
GoUp(s) ==
  IF s.dirdepth = 0 THEN Refuse(s)
  ELSE [s EXCEPT !.cwd = Front(@), !.dirdepth = @ - 1]

GoDown(s, creates) ==
  IF ~ircp_checkdir(s, creates)
    THEN Refuse(s)
    ELSE Enter(s)

(* The end of a request: its object is freed, and DISCONNECT ends the      *)
(* server.                                                                 *)
ReqDone(s) ==
  [s EXCEPT !.cmd = None, !.name = None, !.rsp = "SUCCESS",
            !.finished = @ \/ s.cmd = "DISCONNECT"]

(* srv_obex_event: OBEX_EV_REQ of a request that has arrived whole. *)
Requested(s, creates) ==
  CASE s.cmd = "UP" -> GoUp(s)
    [] s.cmd = "DOWN" -> GoDown(s, creates)
    [] OTHER -> s

(* SETPATH is one command: a packet of another command ends the request    *)
(* in progress, and the server with it.                                    *)
Command(op) == IF op \in {"UP", "DOWN"} THEN "SETPATH" ELSE op

(* One packet: the request is refused as soon as an answer says so.        *)
Receives ==
  /\ spc = "running" /\ ~srv.finished /\ toServer # None
  /\ toServer' = None
  /\ LET p == toServer IN
     IF srv.cmd # None /\ Command(srv.cmd) # Command(p.op)
       THEN /\ toClient' = "BAD_REQUEST"
            /\ srv' = [ReqDone(srv) EXCEPT !.finished = TRUE]
            /\ UNCHANGED faults
       ELSE \E creates, writes \in BOOLEAN :
            LET s == [srv EXCEPT !.cmd = p.op,
                                 !.name = IF p.name # None THEN p.name ELSE @]
                t == Stream(s, p, creates, writes)
                u == IF p.final THEN Requested(t, creates) ELSE t
            IN  /\ CASE ~creates /\ writes ->
                          /\ s.name # None /\ p.op \in {"PUT", "DOWN"}
                          /\ s.fd = 0
                          /\ Fault("create")
                     [] creates /\ ~writes ->
                          p.data # <<>> /\ Fault("write")
                     [] ~creates /\ ~writes -> FALSE
                     [] OTHER -> UNCHANGED faults
                /\ IF p.final \/ u.rsp # "SUCCESS"
                     THEN toClient' = u.rsp /\ srv' = ReqDone(u)
                     ELSE toClient' = "CONTINUE" /\ srv' = u
  /\ UNCHANGED <<clientVars, object, link, spc>>

(* ircp_srv_sync_wait has returned: the handle and its sockets are closed, *)
(* as when the link is lost.                                               *)
ServerEnds ==
  /\ spc = "running"
  /\ srv.finished \/ (link = "down" /\ toServer = None)
  /\ spc' = "ended"
  /\ link' = IF link = "up" THEN "down" ELSE link
  /\ toServer' = None
  /\ UNCHANGED <<clientVars, object, toClient, srv, faults>>

(* The link breaks, with what is under way. *)
LinkBreaks ==
  /\ link = "up"
  /\ Fault("link")
  /\ link' = "down"
  /\ toServer' = None /\ toClient' = None
  /\ UNCHANGED <<clientVars, object, spc, srv>>

-----------------------------------------------------------------------------
(* ircp_srv_open does not initialise finished. *)
Init ==
  /\ pc = "connect"
  /\ left \in ArgLists
  /\ todo = <<>> /\ step = None
  /\ finished = FALSE /\ success = FALSE
  /\ fd = None
  /\ reported = {} /\ strayed = FALSE
  /\ object = None
  /\ link = "none"
  /\ toServer = None /\ toClient = None
  /\ spc = "running"
  /\ srv \in [fd : {0}, cwd : {<<>>}, dirdepth : {0}, finished : BOOLEAN,
              inbox : {<<>>}, dirs : {{}}, cmd : {None}, name : {None},
              rsp : {"SUCCESS"}]
  /\ faults = {}

Client ==
  \/ TransportConnects
  \/ ircp_cli_connect
  \/ NextArgument
  \/ ircp_visit
  \/ ircp_cli_disconnect
  \/ HandleInput
  \/ Done
  \/ LinkLost

Server == Receives \/ ServerEnds

Next == Client \/ Server \/ TimesOut \/ LinkBreaks

Spec == Init /\ [][Next]_vars

(* Both programs call OBEX_HandleInput until they are finished. *)
FairSpec == Spec /\ WF_vars(Client) /\ WF_vars(Server)
-----------------------------------------------------------------------------
(* The types of the variables; the two ends hold what ircp_client_t,       *)
(* ircp_server_t and the objects in progress may hold, and the directory   *)
(* of the server is as deep below its inbox as dirdepth says, so that it   *)
(* never leaves it.                                                        *)
TypeOK ==
  /\ pc \in {"connect", "put", "disconnect", "done"}
  /\ link \in {"none", "up", "down"}
  /\ spc \in {"running", "ended"}
  /\ finished \in BOOLEAN /\ success \in BOOLEAN /\ strayed \in BOOLEAN
  /\ faults \subseteq Faults
  /\ step # None => step.op \in Ops
  /\ object # None => object.op \in Ops
  /\ fd # None => fd.next \in 1..(fd.file.chunks + 1)
  /\ toServer # None => toServer.op \in Ops
  /\ toClient \in Codes \union {None}
  /\ srv.fd \in 0..Len(srv.inbox)
  /\ srv.dirdepth = Len(srv.cwd)

(* What arrives of a file at the server, which goes on until it refuses a  *)
(* directory, finds it in the directory that the file is meant for:        *)
(* ircp_setpath has told it so, in step with the walk of dirtraverse.c and *)
(* across arguments. When a visit failed inside of a directory the way out *)
(* of it was skipped, and after a timeout a request may have been refused  *)
(* unseen; then nothing is promised.                                       *)
InPlace ==
  toServer # None /\ toServer.op = "PUT" =>
    srv.finished \/ strayed \/ "timeout" \in faults \/ srv.cwd = object.at

(* What ircp_srv_receive stores under a name is the beginning of the file  *)
(* of that name, whatever failed before, except for three faults: a        *)
(* request given up by the client's read error is still open at the server *)
(* and takes the next one's data, one that timed out reads the descriptor  *)
(* of the next file, and the result of write is not looked at.             *)
Unmixed ==
  faults \intersect {"timeout", "read", "write"} = {} =>
    \A f \in ToSet(srv.inbox) :
      f.data = [k \in 1..Len(f.data) |-> <<f.name, k>>]

(* A file that ircp_put_file reports as sent is stored whole, in the       *)
(* directory it was meant for. The faults of Unmixed are excepted; and an  *)
(* empty file that could not be created is answered with SUCCESS, where    *)
(* others are refused because new_file does not find the name again.       *)
ReportedIsStored ==
  faults \intersect {"timeout", "read", "write"} = {} =>
    \A v \in reported :
      \/ "create" \in faults /\ v.file.chunks = 0
      \/ \E f \in ToSet(srv.inbox) :
           /\ f.name = v.file.name /\ f.data = Chunks(v.file)
           /\ strayed \/ f.dir = v.at

(* Each run of the client ends, and with it the server once it was called, *)
(* whatever fails: no wait of cli_sync_request or ircp_srv_sync_wait is    *)
(* for ever, also without its twenty seconds.                              *)
Completes == <>(pc = "done" /\ (spc = "ended" \/ link = "none"))
=============================================================================
