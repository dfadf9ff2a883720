------------------------------- MODULE Daemon -------------------------------
(***************************************************************************)
(* The daemon's event loop (sw/main_loop.c), its socket server             *)
(* (sw/socket_server.c) and the CGI processes that talk to it              *)
(* (sw/webui/cgi_common.c).  The loop is one thread: epoll hands it a      *)
(* batch of ready sources, and a client is read, answered and closed in    *)
(* line, with blocking calls, before anything else is looked at.  A CGI    *)
(* gives up at its deadline, and httpd may kill it at any step; what it    *)
(* has sent stays in the socket, and its place in the backlog stays too.   *)
(*                                                                         *)
(* What a tick, a DMA channel and the saves at the end do is in Stack,     *)
(* DmaRx and Persist.                                                      *)
(***************************************************************************)
EXTENDS Naturals, Sequences, FiniteSets

CONSTANTS
  Clients,   \* CGI processes, one request each (bound)
  NoClient,  \* no client is being served
  Requests,  \* kinds of request they send, see Outcome
  Sources,   \* sources besides the signal fd: "timer", "dma"
  Backlog    \* connections that may wait for accept4

(* A request: daemon.stop, any other operation (none of them changes the   *)
(* daemon's state), one that is no envelope or names no operation, one     *)
(* whose length is out of range.                                           *)
RequestKinds == {"stop", "other", "invalid", "badlen"}
Replies == {"none", "ok", "error"}

ASSUME ClientAssumption == NoClient \notin Clients
ASSUME RequestAssumption == Requests \subseteq RequestKinds
ASSUME SourcesAssumption == Sources \subseteq {"timer", "dma"}
ASSUME BacklogAssumption == Backlog \in Nat \ {0}

VARIABLES
  pc,        \* where the daemon's thread is
  batch,     \* events of the last epoll_wait not yet looked at
  pending,   \* sources that are readable, "signal" among them
  backlog,   \* clients connected and not accepted
  cur,       \* client being served
  out,       \* the reply to it
  shutdown,  \* shutdown_requested, and with it clean_shutdown_flag
  saved,     \* the clean-shutdown sequence has run
  signalled, \* history: SIGTERM was sent
  cgi,       \* the CGI processes
  conn       \* their connections

vars == <<pc, batch, pending, backlog, cur, out, shutdown, saved, signalled, cgi, conn>>
loopVars == <<batch, pending, backlog, cur, out, shutdown, saved, signalled>>

Serving == {"length", "body", "dispatch", "reply", "close"}
Looping == {"wait", "batch", "accept"} \cup Serving
Ended == {"off", "failed", "killed"}
Listening == pc \notin {"start"} \cup Ended

(* A CGI's end of its connection is open while it runs.                    *)
Connected == {"length", "body", "header", "answer"}
IsOpen(c) == cgi[c].pc \in Connected

TypeOK ==
  /\ pc \in {"start", "init", "save", "teardown"} \cup Looping \cup Ended
  /\ pending \subseteq Sources \cup {"signal"}
  /\ batch \subseteq pending \cup {"listener"}
  /\ backlog \in Seq(Clients) /\ Len(backlog) <= Backlog
  /\ cur \in Clients \cup {NoClient} /\ (cur # NoClient <=> pc \in Serving)
  /\ out \in Replies
  /\ {shutdown, saved, signalled} \subseteq BOOLEAN
  /\ cgi \in [Clients -> [pc : {"new", "done"} \cup Connected,
                          req : RequestKinds,
                          ans : {"none", "rejected", "502", "504", "ok", "error", "killed"}]]
  /\ conn \in [Clients -> [end : {"none", "queued", "accepted", "closed"},
                           wrote : 0 .. 2,
                           reply : Replies]]

Init ==
  /\ pc = "start" /\ batch = {} /\ pending = {} /\ backlog = <<>>
  /\ cur = NoClient /\ out = "none"
  /\ shutdown = FALSE /\ saved = FALSE /\ signalled = FALSE
  /\ cgi \in [Clients -> [pc : {"new"}, req : Requests, ans : {"none"}]]
  /\ conn = [c \in Clients |-> [end |-> "none", wrote |-> 0, reply |-> "none"]]

---------------------------------------------------------------------------
(* The daemon.                                                             *)

(* Every end of a connection the daemon holds is closed with its process,  *)
(* or with its listener.                                                   *)
CloseAll == conn' = [c \in Clients |->
  IF conn[c].end \in {"queued", "accepted"} THEN [conn[c] EXCEPT !.end = "closed"] ELSE conn[c]]

(* main_loop_init up to listen(): from here on clients can connect.        *)
StartListen ==
  /\ pc = "start"
  /\ pc' = "init"
  /\ UNCHANGED <<loopVars, cgi, conn>>

(* The rest of main_loop_init.                                             *)
InitOk ==
  /\ pc = "init"
  /\ pc' = "wait"
  /\ UNCHANGED <<loopVars, cgi, conn>>

(* A call of main_loop_init fails: teardown, exit.                         *)
InitFail ==
  /\ pc \in {"start", "init"}
  /\ pc' = "failed"
  /\ backlog' = <<>>
  /\ CloseAll
  /\ UNCHANGED <<batch, pending, cur, out, shutdown, saved, signalled, cgi>>

(* epoll_wait returns what is readable.                                    *)
Ready == pending \cup (IF backlog # <<>> THEN {"listener"} ELSE {})
EpollWait ==
  /\ pc = "wait" /\ ~shutdown
  /\ Ready # {}
  /\ pc' = "batch" /\ batch' = Ready
  /\ UNCHANGED <<pending, backlog, cur, out, shutdown, saved, signalled, cgi, conn>>

(* One event of the batch; epoll promises no order.                        *)
Event(kind) ==
  /\ pc = "batch" /\ ~shutdown
  /\ kind \in batch
  /\ batch' = batch \ {kind}

(* ml_signal_event.                                                        *)
SignalEvent ==
  /\ Event("signal")
  /\ pending' = pending \ {"signal"}
  /\ shutdown' = TRUE
  /\ UNCHANGED <<pc, backlog, cur, out, saved, signalled, cgi, conn>>

(* ml_timer_tick and ml_drain_dma_chan read their source empty.            *)
ReadEvent(kind) ==
  /\ Event(kind)
  /\ pending' = pending \ {kind}
  /\ UNCHANGED <<pc, backlog, cur, out, shutdown, saved, signalled, cgi, conn>>

(* ml_listener_accept.                                                     *)
ListenerEvent ==
  /\ Event("listener")
  /\ pc' = "accept"
  /\ UNCHANGED <<pending, backlog, cur, out, shutdown, saved, signalled, cgi, conn>>

(* The batch is done, or the rest of it is dropped for a shutdown.         *)
BatchEnd ==
  /\ pc = "batch"
  /\ batch = {} \/ shutdown
  /\ pc' = "wait" /\ batch' = {}
  /\ UNCHANGED <<pending, backlog, cur, out, shutdown, saved, signalled, cgi, conn>>

(* accept4 returns a client; one that has given up is accepted like any.   *)
Accept ==
  /\ pc = "accept"
  /\ backlog # <<>>
  /\ cur' = Head(backlog) /\ backlog' = Tail(backlog)
  /\ conn' = [conn EXCEPT ![Head(backlog)].end = "accepted"]
  /\ pc' = "length"
  /\ UNCHANGED <<batch, pending, out, shutdown, saved, signalled, cgi>>

(* Mutant: a listener without SOCK_NONBLOCK.                               *)
AcceptWaits ==
  /\ pc = "accept"
  /\ FALSE
  /\ UNCHANGED vars

(* accept4 finds nobody, or fails.  The loop does not look at              *)
(* shutdown_requested: it serves everybody who waits first.                *)
AcceptEnd ==
  /\ pc = "accept"
  /\ pc' = "batch"
  /\ UNCHANGED <<loopVars, cgi, conn>>

(* Mutant: the end of the stream is no reason to stop reading.             *)
EofWaits(n) == FALSE

(* read_full returns an error: the client is gone and less than n parts of *)
(* the request (its length, its body) have come.                           *)
Eof(n) == conn[cur].wrote < n /\ ~IsOpen(cur)

(* Mutant: a request that was cut short is taken for complete.             *)
ArrivedOrCut(n) == conn[cur].wrote >= n \/ (n = 2 /\ ~IsOpen(cur))

(* read_full returns all it wants.                                         *)
Arrived(n) == conn[cur].wrote >= n

(* socket_server_handle_client reads the length ...                        *)
ReadLength ==
  /\ pc = "length"
  /\ \/ Arrived(1) /\ cgi[cur].req # "badlen" /\ pc' = "body" /\ out' = "none"
     \/ Arrived(1) /\ cgi[cur].req = "badlen" /\ pc' = "reply" /\ out' = "error"
     \/ Eof(1) /\ pc' = "close" /\ out' = "none"
  /\ UNCHANGED <<batch, pending, backlog, cur, shutdown, saved, signalled, cgi, conn>>

(* ... then the body ...                                                   *)
ReadBody ==
  /\ pc = "body"
  /\ \/ Arrived(2) /\ pc' = "dispatch"
     \/ Eof(2) /\ pc' = "close"
  /\ UNCHANGED <<loopVars, cgi, conn>>

(* Parsing, the operation table, the handler, the envelope.                *)
Outcome(req) == IF req \in {"stop", "other"} THEN "ok" ELSE "error"

(* Mutant: daemon.stop sets clean_shutdown_flag only.                      *)
RequestShutdownFlagOnly(req) == shutdown

(* s_handler_daemon_stop calls daemon_request_shutdown.                    *)
RequestShutdown(req) == shutdown \/ req = "stop"

(* ... calls the handler ...                                               *)
Dispatch ==
  /\ pc = "dispatch"
  /\ shutdown' = RequestShutdown(cgi[cur].req)
  /\ out' = Outcome(cgi[cur].req)
  /\ pc' = "reply"
  /\ UNCHANGED <<batch, pending, backlog, cur, saved, signalled, cgi, conn>>

(* ... and writes the envelope.                                            *)
Reply ==
  /\ pc = "reply"
  /\ IsOpen(cur)
  /\ conn' = [conn EXCEPT ![cur].reply = out]
  /\ pc' = "close"
  /\ UNCHANGED <<loopVars, cgi>>

(* The client has closed its end.  write() raises SIGPIPE, which is        *)
(* neither ignored nor among the three signals that are blocked: the       *)
(* process ends here, without the clean-shutdown sequence.                 *)
ReplyKills ==
  /\ pc = "reply"
  /\ ~IsOpen(cur)
  /\ pc' = "killed"
  /\ cur' = NoClient /\ backlog' = <<>>
  /\ CloseAll
  /\ UNCHANGED <<batch, pending, out, shutdown, saved, signalled, cgi>>

(* Mutant: a client that did not get a reply is not closed.                *)
CloseAnswered ==
  /\ pc = "close"
  /\ conn' = IF conn[cur].reply = "none" THEN conn ELSE [conn EXCEPT ![cur].end = "closed"]
  /\ cur' = NoClient
  /\ pc' = "accept"
  /\ UNCHANGED <<batch, pending, backlog, out, shutdown, saved, signalled, cgi>>

(* close(cfd), and on to the next accept4.                                 *)
Close ==
  /\ pc = "close"
  /\ conn' = [conn EXCEPT ![cur].end = "closed"]
  /\ cur' = NoClient
  /\ pc' = "accept"
  /\ UNCHANGED <<batch, pending, backlog, out, shutdown, saved, signalled, cgi>>

(* main_loop_run returns.                                                  *)
LoopExit ==
  /\ pc = "wait" /\ shutdown
  /\ pc' = "save"
  /\ UNCHANGED <<loopVars, cgi, conn>>

(* ast_snapshot and db_atomic_save; both flags are always set together.    *)
Save ==
  /\ pc = "save"
  /\ saved' = TRUE
  /\ pc' = "teardown"
  /\ UNCHANGED <<batch, pending, backlog, cur, out, shutdown, signalled, cgi, conn>>

(* main_loop_teardown closes the listener and with it whoever waits.       *)
Teardown ==
  /\ pc = "teardown"
  /\ pc' = "off"
  /\ backlog' = <<>>
  /\ CloseAll
  /\ UNCHANGED <<batch, pending, cur, out, shutdown, saved, signalled, cgi>>

Serve == ReadLength \/ ReadBody \/ Dispatch \/ Reply \/ ReplyKills \/ Close

DaemonNext ==
  \/ StartListen \/ InitOk \/ InitFail
  \/ EpollWait \/ SignalEvent \/ (\E kind \in Sources : ReadEvent(kind))
  \/ ListenerEvent \/ BatchEnd
  \/ Accept \/ AcceptEnd \/ Serve
  \/ LoopExit \/ Save \/ Teardown

(* What becomes readable: the timer's period, a DMA interrupt, SIGTERM     *)
(* (sent once).                                                            *)
Readable(kind) ==
  /\ Listening /\ pc # "init"
  /\ kind \notin pending
  /\ kind = "signal" => ~signalled
  /\ signalled' = (signalled \/ kind = "signal")
  /\ pending' = pending \cup {kind}
  /\ UNCHANGED <<pc, batch, backlog, cur, out, shutdown, saved, cgi, conn>>

---------------------------------------------------------------------------
(* The CGI processes.                                                      *)

CgiKeeps == UNCHANGED <<pc, batch, pending, cur, out, shutdown, saved, signalled>>

Answer(c, ans) == cgi' = [cgi EXCEPT ![c].pc = "done", ![c].ans = ans]
Goto(c, place) == cgi' = [cgi EXCEPT ![c].pc = place]

(* The request is refused before the daemon hears of it: no body, no       *)
(* operation, one that is not allowed to this script, too long.            *)
CgiReject(c) ==
  /\ cgi[c].pc = "new"
  /\ Answer(c, "rejected")
  /\ CgiKeeps /\ UNCHANGED <<backlog, conn>>

(* The kernel lets a client wait.                                          *)
Room == Len(backlog) < Backlog

(* connect_daemon.                                                         *)
CgiConnect(c) ==
  /\ cgi[c].pc = "new"
  /\ Listening /\ Room
  /\ Goto(c, "length")
  /\ backlog' = Append(backlog, c)
  /\ conn' = [conn EXCEPT ![c].end = "queued"]
  /\ CgiKeeps

(* Nobody listens, the backlog is full, or reading the request body took   *)
(* until the deadline.                                                     *)
CgiNoConnect(c) ==
  /\ cgi[c].pc = "new"
  /\ Answer(c, "502")
  /\ CgiKeeps /\ UNCHANGED <<backlog, conn>>

(* cgi_write_all of the length and of the body.  SIGPIPE is ignored here.  *)
CgiWrite(c) ==
  /\ \/ cgi[c].pc = "length" /\ conn[c].end # "closed" /\ Goto(c, "body")
     \/ cgi[c].pc = "body" /\ conn[c].end # "closed" /\ Goto(c, "header")
     \/ cgi[c].pc \in {"length", "body"} /\ conn[c].end = "closed" /\ Answer(c, "502")
  /\ conn' = IF conn[c].end = "closed" THEN conn ELSE [conn EXCEPT ![c].wrote = @ + 1]
  /\ CgiKeeps /\ UNCHANGED backlog

(* cgi_read_atleast of the reply's length and body; the daemon writes both *)
(* at once.                                                                *)
CgiRead(c) ==
  /\ \/ cgi[c].pc = "header" /\ conn[c].reply # "none" /\ Goto(c, "answer")
     \/ cgi[c].pc = "header" /\ conn[c].reply = "none" /\ conn[c].end = "closed"
        /\ Answer(c, "502")
     \/ cgi[c].pc = "answer" /\ Answer(c, conn[c].reply)
  /\ CgiKeeps /\ UNCHANGED <<backlog, conn>>

(* The deadline passes; it is looked at before every read.                 *)
CgiTimeout(c) ==
  /\ cgi[c].pc \in {"header", "answer"}
  /\ Answer(c, "504")
  /\ CgiKeeps /\ UNCHANGED <<backlog, conn>>

(* httpd kills a CGI that takes too long (cgi_common.h).                   *)
HttpdKill(c) ==
  /\ IsOpen(c)
  /\ Answer(c, "killed")
  /\ CgiKeeps /\ UNCHANGED <<backlog, conn>>

CgiRun(c) == CgiWrite(c) \/ CgiRead(c) \/ CgiTimeout(c)

Next ==
  \/ DaemonNext
  \/ \E kind \in Sources \cup {"signal"} : Readable(kind)
  \/ \E c \in Clients : CgiReject(c) \/ CgiConnect(c) \/ CgiNoConnect(c)
                        \/ CgiRun(c) \/ HttpdKill(c)

Spec == Init /\ [][Next]_vars

(* The daemon's thread runs; a CGI that has connected runs, and its        *)
(* deadline passes; accept4 does not fail for ever.                        *)
FairSpec ==
  /\ Spec
  /\ WF_vars(DaemonNext)
  /\ SF_vars(Accept)
  /\ \A c \in Clients : WF_vars(CgiRun(c))

---------------------------------------------------------------------------
(* Properties.                                                             *)

(* The daemon shuts down only for a signal or for a daemon.stop that came  *)
(* whole: a request cut short by the death of its CGI has no effect.  A    *)
(* CGI that shows success for daemon.stop has been obeyed.                 *)
StopOnlyIfAsked ==
  /\ shutdown => signalled \/ \E c \in Clients : cgi[c].req = "stop" /\ conn[c].wrote = 2
  /\ \A c \in Clients : cgi[c].req = "stop" /\ cgi[c].ans = "ok" => shutdown

(* Whatever a client did, when the loop goes back to its events no         *)
(* descriptor of a client is open: ml_listener_accept closes on every      *)
(* path.  A leak would end in accept4 failing for ever.                    *)
NoneLeftOpen ==
  \A c \in Clients : conn[c].end = "accepted" => cur = c

(* A client may die between any two of its writes, and accept4 may fail;   *)
(* still every connection is one day closed, so that the CGI behind it     *)
(* gets a reply or an end of stream.                                       *)
ConnectionsEnd == \A c \in Clients : conn[c].end = "queued" ~> conn[c].end = "closed"

(* Serving clients in line with blocking reads does not hold up the tick   *)
(* and the DMA channels for ever: CGIs end.  (For as many clients as there *)
(* are; a load that never pauses keeps the thread in ml_listener_accept.)  *)
EventsServed ==
  \A kind \in Sources :
    kind \in pending ~> kind \notin pending \/ shutdown \/ pc \in Ended

(* A signal, or a daemon.stop that was acknowledged, ends the daemon: by   *)
(* way of the saves, unless the process is killed on the way.              *)
StopCompletes ==
  "signal" \in pending \/ (\E c \in Clients : cgi[c].req = "stop" /\ cgi[c].ans = "ok")
    ~> (pc = "off" /\ saved) \/ pc = "killed"

(* socket_server.c:277 says "only catastrophic write-failures cause us to  *)
(* drop the client without a response": a failing write drops the client,  *)
(* and the daemon goes on.                                                 *)
WriteFailureDropsClient == pc # "killed"

(* Does not hold.  OPERATIONS.md:338 says of daemon.stop: "clean shutdown  *)
(* flag set, AST snapshot to ast.json".  After the acknowledgement the     *)
(* accept loop still serves whoever waits, and one who has given up kills  *)
(* the process before the snapshot.                                        *)
AckedStopSaves ==
  \A c \in Clients : cgi[c].req = "stop" /\ cgi[c].ans = "ok" => pc # "killed"
=============================================================================
