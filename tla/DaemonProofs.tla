----------------------------- MODULE DaemonProofs -----------------------------
(***************************************************************************)
(* Proofs about Daemon for every set of clients and requests, every set of *)
(* sources and every backlog: no descriptor of a client is left open, and  *)
(* the daemon stops only for whoever asked it to.                          *)
(***************************************************************************)
EXTENDS Daemon, SequenceTheorems, TLAPS

(* What a CGI has written by the time it gets where it is: nothing before  *)
(* the length, the length before the body.                                 *)
Progress ==
  \A c \in Clients :
    /\ cgi[c].pc \in {"new", "length"} => conn[c].wrote = 0
    /\ cgi[c].pc = "body" => conn[c].wrote = 1

(* A request is dispatched only when it has come whole, and success is     *)
(* written to a daemon.stop only when it has been obeyed.                  *)
Obeyed ==
  /\ pc = "dispatch" => conn[cur].wrote = 2
  /\ pc = "reply" /\ out = "ok" /\ cgi[cur].req = "stop" => shutdown
  /\ \A c \in Clients : conn[c].reply = "ok" /\ cgi[c].req = "stop" => shutdown

(* The signal fd is readable only after a signal.                          *)
SignalSent == "signal" \in pending => signalled

IInv ==
  /\ TypeOK
  /\ NoneLeftOpen
  /\ Progress
  /\ Obeyed
  /\ SignalSent
  /\ StopOnlyIfAsked

CgiType == [pc : {"new", "done"} \cup Connected,
            req : RequestKinds,
            ans : {"none", "rejected", "502", "504", "ok", "error", "killed"}]
ConnType == [end : {"none", "queued", "accepted", "closed"},
             wrote : 0 .. 2,
             reply : Replies]

LEMMA InitIInv == Init => IInv
<1> SUFFICES ASSUME Init PROVE IInv
  OBVIOUS
<1>1. TypeOK
  <2>1. cgi \in [Clients -> CgiType]
    BY RequestAssumption DEF Init, CgiType
  <2>2. conn \in [Clients -> ConnType]
    BY DEF Init, ConnType, Replies
  <2>3. backlog \in Seq(Clients) /\ Len(backlog) <= Backlog
    BY BacklogAssumption DEF Init
  <2>4. /\ pc \in {"start", "init", "save", "teardown"} \cup Looping \cup Ended
        /\ cur \in Clients \cup {NoClient} /\ (cur # NoClient <=> pc \in Serving)
    BY ClientAssumption DEF Init, Serving
  <2> QED
    BY <2>1, <2>2, <2>3, <2>4 DEF Init, TypeOK, CgiType, ConnType, Replies
<1>2. /\ \A c \in Clients : cgi[c].pc = "new" /\ cgi[c].ans = "none"
      /\ \A c \in Clients : conn[c].end = "none" /\ conn[c].wrote = 0 /\ conn[c].reply = "none"
  BY DEF Init
<1>3. pc = "start" /\ ~shutdown /\ pending = {}
  BY DEF Init
<1>4. NoneLeftOpen /\ Progress /\ Obeyed /\ SignalSent /\ StopOnlyIfAsked
  BY <1>2, <1>3 DEF NoneLeftOpen, Progress, Obeyed, SignalSent, StopOnlyIfAsked
<1> QED
  BY <1>1, <1>4 DEF IInv

(* Steps of the daemon's thread that look at no client.                    *)
LEMMA LoopIInv ==
  ASSUME IInv,
         \/ StartListen \/ InitOk \/ EpollWait \/ SignalEvent
         \/ (\E kind \in Sources : ReadEvent(kind))
         \/ ListenerEvent \/ BatchEnd \/ AcceptEnd \/ LoopExit \/ Save
  PROVE  IInv'
<1> USE DEF IInv
<1>u. UNCHANGED <<backlog, cur, out, signalled, cgi, conn>>
  BY DEF StartListen, InitOk, EpollWait, SignalEvent, ReadEvent, Event, ListenerEvent,
         BatchEnd, AcceptEnd, LoopExit, Save, loopVars
<1>p. /\ pc \notin Serving /\ pc' \notin Serving
      /\ pc' \in {"init", "save", "teardown"} \cup Looping
      /\ pc' # "dispatch" /\ pc' # "reply"
  BY DEF StartListen, InitOk, EpollWait, SignalEvent, ReadEvent, Event, ListenerEvent,
         BatchEnd, AcceptEnd, LoopExit, Save, loopVars, Serving, Looping
<1>q. pending' \subseteq pending
  BY DEF StartListen, InitOk, EpollWait, SignalEvent, ReadEvent, Event, ListenerEvent,
         BatchEnd, AcceptEnd, LoopExit, Save, loopVars
<1>b. batch' \subseteq pending' \cup {"listener"}
  BY DEF TypeOK, StartListen, InitOk, EpollWait, SignalEvent, ReadEvent, Event, ListenerEvent,
         BatchEnd, AcceptEnd, LoopExit, Save, loopVars, Ready
<1>s. shutdown' \in BOOLEAN /\ saved' \in BOOLEAN
      /\ (shutdown => shutdown') /\ (shutdown' => shutdown \/ signalled)
  <2>1. shutdown \in BOOLEAN /\ saved \in BOOLEAN
    BY DEF TypeOK
  <2>2. CASE SignalEvent
    <3>1. "signal" \in pending
      BY <2>2 DEF SignalEvent, Event, TypeOK
    <3> QED
      BY <2>1, <2>2, <3>1 DEF SignalEvent, SignalSent
  <2>3. CASE Save
    BY <2>1, <2>3 DEF Save
  <2>4. CASE ~SignalEvent /\ ~Save
    <3>1. UNCHANGED <<shutdown, saved>>
      BY <2>4 DEF StartListen, InitOk, EpollWait, ReadEvent, Event, ListenerEvent,
                  BatchEnd, AcceptEnd, LoopExit, loopVars
    <3> QED
      BY <2>1, <3>1
  <2> QED
    BY <2>2, <2>3, <2>4
<1>1. TypeOK'
  BY <1>u, <1>p, <1>q, <1>b, <1>s DEF TypeOK
<1>2. NoneLeftOpen' /\ Progress'
  BY <1>u DEF NoneLeftOpen, Progress
<1>3. Obeyed'
  BY <1>u, <1>p, <1>s DEF Obeyed
<1>4. SignalSent'
  BY <1>u, <1>q DEF SignalSent
<1>5. StopOnlyIfAsked'
  BY <1>u, <1>s DEF StopOnlyIfAsked
<1> QED
  BY <1>1, <1>2, <1>3, <1>4, <1>5

(* The thread serves a client: accept4, the two reads, the handler, the    *)
(* reply, close.                                                           *)
LEMMA AcceptIInv ==
  ASSUME IInv, Accept
  PROVE  IInv'
<1> USE DEF IInv
<1> DEFINE c == Head(backlog)
<1>0. pc = "accept" /\ cur = NoClient /\ pc' = "length" /\ cur' = c
  BY DEF Accept, TypeOK, Serving
<1>1. c \in Clients /\ backlog' \in Seq(Clients) /\ Len(backlog') <= Backlog
  <2>1. backlog \in Seq(Clients) /\ backlog # <<>> /\ backlog' = Tail(backlog)
    BY DEF Accept, TypeOK
  <2>2. Len(backlog') = Len(backlog) - 1
    BY <2>1
  <2> QED
    BY <2>1, <2>2, BacklogAssumption DEF TypeOK
<1>2. conn \in [Clients -> ConnType] /\ conn' = [conn EXCEPT ![c].end = "accepted"]
  BY DEF Accept, TypeOK, ConnType
<1> HIDE DEF c
<1>3. conn' \in [Clients -> ConnType]
  BY <1>1, <1>2 DEF ConnType
<1>4. /\ \A d \in Clients : conn'[d].wrote = conn[d].wrote /\ conn'[d].reply = conn[d].reply
      /\ \A d \in Clients : conn'[d].end = IF d = c THEN "accepted" ELSE conn[d].end
  BY <1>1, <1>2 DEF ConnType
<1>5. UNCHANGED <<batch, pending, out, shutdown, saved, signalled, cgi>>
  BY DEF Accept
<1>6. TypeOK'
  <2>1. c # NoClient
    BY <1>1, ClientAssumption
  <2> QED
    BY <1>0, <1>1, <1>3, <1>5, <2>1 DEF TypeOK, ConnType, Serving, Looping
<1>7. NoneLeftOpen'
  BY <1>0, <1>1, <1>4, ClientAssumption DEF NoneLeftOpen
<1>8. Progress' /\ Obeyed' /\ SignalSent' /\ StopOnlyIfAsked'
  BY <1>0, <1>4, <1>5 DEF Progress, Obeyed, SignalSent, StopOnlyIfAsked
<1> QED
  BY <1>6, <1>7, <1>8

LEMMA ServeIInv ==
  ASSUME IInv, ReadLength \/ ReadBody \/ Dispatch \/ Reply \/ Close
  PROVE  IInv'
<1> USE DEF IInv
<1>0. /\ pc \in Serving /\ cur \in Clients
      /\ cgi \in [Clients -> CgiType] /\ conn \in [Clients -> ConnType]
      /\ shutdown \in BOOLEAN
  BY DEF ReadLength, ReadBody, Dispatch, Reply, Close, TypeOK, Serving, CgiType, ConnType
<1>1. CASE ReadLength
  <2>1. UNCHANGED <<batch, pending, backlog, cur, shutdown, saved, signalled, cgi, conn>>
        /\ pc' \in {"body", "reply", "close"} /\ out' \in Replies /\ out' # "ok"
    BY <1>1 DEF ReadLength, Replies
  <2>2. TypeOK'
    BY <1>0, <2>1 DEF TypeOK, Serving, Looping
  <2> QED
    BY <2>1, <2>2 DEF NoneLeftOpen, Progress, Obeyed, SignalSent, StopOnlyIfAsked
<1>2. CASE ReadBody
  <2>1. UNCHANGED <<batch, pending, backlog, cur, out, shutdown, saved, signalled, cgi, conn>>
        /\ pc' \in {"dispatch", "close"}
        /\ (pc' = "dispatch" => conn[cur].wrote >= 2)
    BY <1>2 DEF ReadBody, loopVars, Arrived
  <2>2. TypeOK'
    BY <1>0, <2>1 DEF TypeOK, Serving, Looping
  <2>3. conn[cur].wrote \in 0 .. 2
    BY <1>0 DEF ConnType
  <2>4. Obeyed'
    BY <2>1, <2>3 DEF Obeyed
  <2> QED
    BY <2>1, <2>2, <2>4 DEF NoneLeftOpen, Progress, SignalSent, StopOnlyIfAsked
<1>3. CASE Dispatch
  <2>1. UNCHANGED <<batch, pending, backlog, cur, saved, signalled, cgi, conn>>
        /\ pc' = "reply" /\ out' \in Replies
        /\ shutdown' = (shutdown \/ cgi[cur].req = "stop")
    BY <1>3 DEF Dispatch, Outcome, Replies, RequestShutdown
  <2>2. TypeOK'
    BY <1>0, <2>1 DEF TypeOK, Serving, Looping
  <2>3. Obeyed'
    BY <2>1 DEF Obeyed
  <2>4. conn[cur].wrote = 2
    BY <1>3 DEF Dispatch, Obeyed
  <2>5. StopOnlyIfAsked'
    BY <1>0, <2>1, <2>4 DEF StopOnlyIfAsked
  <2> QED
    BY <2>1, <2>2, <2>3, <2>5 DEF NoneLeftOpen, Progress, SignalSent
<1>4. CASE Reply
  <2>1. UNCHANGED <<batch, pending, backlog, cur, out, shutdown, saved, signalled, cgi>>
        /\ pc = "reply" /\ pc' = "close" /\ conn' = [conn EXCEPT ![cur].reply = out]
    BY <1>4 DEF Reply, loopVars
  <2>2. conn' \in [Clients -> ConnType]
    BY <1>0, <2>1 DEF ConnType, TypeOK
  <2>3. \A d \in Clients : /\ conn'[d].wrote = conn[d].wrote
                           /\ conn'[d].end = conn[d].end
                           /\ conn'[d].reply = IF d = cur THEN out ELSE conn[d].reply
    BY <1>0, <2>1 DEF ConnType
  <2>4. TypeOK'
    BY <1>0, <2>1, <2>2 DEF TypeOK, Serving, Looping, ConnType
  <2>5. Obeyed'
    BY <1>0, <2>1, <2>3 DEF Obeyed
  <2> QED
    BY <2>1, <2>3, <2>4, <2>5 DEF NoneLeftOpen, Progress, SignalSent, StopOnlyIfAsked
<1>5. CASE Close
  <2>1. UNCHANGED <<batch, pending, backlog, out, shutdown, saved, signalled, cgi>>
        /\ pc' = "accept" /\ cur' = NoClient /\ conn' = [conn EXCEPT ![cur].end = "closed"]
    BY <1>5 DEF Close
  <2>2. conn' \in [Clients -> ConnType]
    BY <1>0, <2>1 DEF ConnType, TypeOK
  <2>3. \A d \in Clients : /\ conn'[d].wrote = conn[d].wrote
                           /\ conn'[d].end = IF d = cur THEN "closed" ELSE conn[d].end
                           /\ conn'[d].reply = conn[d].reply
    BY <1>0, <2>1 DEF ConnType
  <2>4. TypeOK'
    BY <1>0, <2>1, <2>2 DEF TypeOK, Serving, Looping, ConnType
  <2>5. NoneLeftOpen'
    BY <1>0, <2>1, <2>3 DEF NoneLeftOpen
  <2> QED
    BY <2>1, <2>3, <2>4, <2>5 DEF Obeyed, Progress, SignalSent, StopOnlyIfAsked
<1> QED
  BY <1>1, <1>2, <1>3, <1>4, <1>5

(* The process or its listener goes, and every connection with it.         *)
LEMMA CloseAllIInv ==
  ASSUME IInv, InitFail \/ ReplyKills \/ Teardown
  PROVE  IInv'
<1> USE DEF IInv
<1>1. /\ UNCHANGED <<batch, pending, out, shutdown, saved, signalled, cgi>>
      /\ backlog' = <<>> /\ pc' \in Ended /\ cur' = NoClient /\ CloseAll
  BY DEF InitFail, ReplyKills, Teardown, Ended, TypeOK, Serving
<1>2. conn \in [Clients -> ConnType]
  BY DEF TypeOK, ConnType
<1>3. conn' \in [Clients -> ConnType]
  BY <1>1, <1>2 DEF CloseAll, ConnType
<1>4. \A d \in Clients : /\ conn'[d].wrote = conn[d].wrote
                         /\ conn'[d].reply = conn[d].reply
                         /\ conn'[d].end # "accepted"
  BY <1>1, <1>2 DEF CloseAll, ConnType
<1>5. TypeOK'
  <2>1. backlog' \in Seq(Clients) /\ Len(backlog') <= Backlog
    BY <1>1, BacklogAssumption
  <2> QED
    BY <1>1, <1>3, <2>1 DEF TypeOK, Ended, Serving, ConnType
<1> QED
  BY <1>1, <1>4, <1>5 DEF NoneLeftOpen, Progress, Obeyed, SignalSent, StopOnlyIfAsked, Ended

(* A source becomes readable; a signal is noted when it is sent.           *)
LEMMA ReadableIInv ==
  ASSUME IInv, NEW kind \in Sources \cup {"signal"}, Readable(kind)
  PROVE  IInv'
<1> USE DEF IInv
<1>1. /\ UNCHANGED <<pc, batch, backlog, cur, out, shutdown, saved, cgi, conn>>
      /\ pending' = pending \cup {kind}
      /\ signalled' = (signalled \/ kind = "signal")
  BY DEF Readable
<1>2. signalled \in BOOLEAN /\ signalled' \in BOOLEAN
  BY <1>1 DEF TypeOK
<1>3. TypeOK'
  BY <1>1, <1>2 DEF TypeOK
<1>4. SignalSent' /\ StopOnlyIfAsked'
  BY <1>1, <1>2 DEF SignalSent, StopOnlyIfAsked
<1> QED
  BY <1>1, <1>3, <1>4 DEF NoneLeftOpen, Progress, Obeyed

(* A CGI ends with an answer: it has written what it has written.  An      *)
(* answer "ok" to daemon.stop is the reply that was sent.                  *)
LEMMA AnswerIInv ==
  ASSUME IInv, NEW c \in Clients, NEW ans \in {"rejected", "502", "504", "ok", "error", "killed", "none"},
         Answer(c, ans), CgiKeeps, UNCHANGED <<backlog, conn>>,
         ans = "ok" => conn[c].reply = "ok"
  PROVE  IInv'
<1> USE DEF IInv
<1>1. /\ cgi \in [Clients -> CgiType]
      /\ cgi' = [cgi EXCEPT ![c].pc = "done", ![c].ans = ans]
      /\ UNCHANGED <<pc, batch, pending, cur, out, shutdown, saved, signalled>>
  BY DEF Answer, CgiKeeps, TypeOK, CgiType
<1>2. cgi' \in [Clients -> CgiType]
  BY <1>1 DEF CgiType
<1>3. \A d \in Clients : /\ cgi'[d].req = cgi[d].req
                         /\ cgi'[d].pc = IF d = c THEN "done" ELSE cgi[d].pc
                         /\ cgi'[d].ans = IF d = c THEN ans ELSE cgi[d].ans
  BY <1>1 DEF CgiType
<1>4. TypeOK'
  BY <1>1, <1>2 DEF TypeOK, CgiType
<1>5. Obeyed'
  <2>1. pc = "reply" => cur \in Clients
    BY DEF TypeOK, Serving
  <2> QED
    BY <1>1, <1>3, <2>1 DEF Obeyed
<1>6. StopOnlyIfAsked'
  BY <1>1, <1>3 DEF StopOnlyIfAsked, Obeyed
<1> QED
  BY <1>1, <1>3, <1>4, <1>5, <1>6 DEF NoneLeftOpen, Progress, SignalSent

(* A CGI goes on: it connects, writes the next part, or starts to read.    *)
LEMMA GotoIInv ==
  ASSUME IInv, NEW c \in Clients, CgiKeeps,
         \/ /\ cgi[c].pc = "new" /\ Goto(c, "length") /\ Len(backlog) < Backlog
            /\ backlog' = Append(backlog, c)
            /\ conn' = [conn EXCEPT ![c].end = "queued"]
         \/ /\ \/ cgi[c].pc = "length" /\ Goto(c, "body")
               \/ cgi[c].pc = "body" /\ Goto(c, "header")
            /\ conn' = [conn EXCEPT ![c].wrote = @ + 1]
            /\ UNCHANGED backlog
         \/ /\ cgi[c].pc = "header" /\ Goto(c, "answer")
            /\ UNCHANGED <<backlog, conn>>
  PROVE  IInv'
<1> USE DEF IInv
<1>0. /\ cgi \in [Clients -> CgiType] /\ conn \in [Clients -> ConnType]
      /\ UNCHANGED <<pc, batch, pending, cur, out, shutdown, saved, signalled>>
  BY DEF CgiKeeps, TypeOK, CgiType, ConnType
<1>1. PICK place \in Connected : cgi' = [cgi EXCEPT ![c].pc = place]
  BY DEF Goto, Connected
<1>2. cgi' \in [Clients -> CgiType]
  BY <1>0, <1>1 DEF CgiType
<1>3. \A d \in Clients : /\ cgi'[d].req = cgi[d].req /\ cgi'[d].ans = cgi[d].ans
                         /\ d # c => cgi'[d].pc = cgi[d].pc
  BY <1>0, <1>1 DEF CgiType
<1>4. /\ conn' \in [Clients -> ConnType]
      /\ \A d \in Clients : /\ conn'[d].reply = conn[d].reply
                            /\ conn[d].wrote = 2 => conn'[d].wrote = 2
                            /\ conn'[d].end = "accepted" => conn[d].end = "accepted"
                            /\ d # c => conn'[d].wrote = conn[d].wrote
      /\ cgi'[c].pc \in {"new", "length"} => conn'[c].wrote = 0
      /\ cgi'[c].pc = "body" => conn'[c].wrote = 1
  <2>1. CASE /\ cgi[c].pc = "new" /\ Goto(c, "length")
             /\ conn' = [conn EXCEPT ![c].end = "queued"]
    <3>1. conn[c].wrote = 0
      BY <2>1 DEF Progress
    <3> QED
      BY <1>0, <2>1, <3>1 DEF Goto, CgiType, ConnType
  <2>2. CASE cgi[c].pc = "length" /\ Goto(c, "body") /\ conn' = [conn EXCEPT ![c].wrote = @ + 1]
    <3>1. conn[c].wrote = 0
      BY <2>2 DEF Progress
    <3> QED
      BY <1>0, <2>2, <3>1 DEF Goto, CgiType, ConnType
  <2>3. CASE cgi[c].pc = "body" /\ Goto(c, "header") /\ conn' = [conn EXCEPT ![c].wrote = @ + 1]
    <3>1. conn[c].wrote = 1
      BY <2>3 DEF Progress
    <3> QED
      BY <1>0, <2>3, <3>1 DEF Goto, CgiType, ConnType
  <2>4. CASE cgi[c].pc = "header" /\ Goto(c, "answer") /\ UNCHANGED conn
    BY <1>0, <2>4 DEF Goto, CgiType, ConnType
  <2> QED
    BY <2>1, <2>2, <2>3, <2>4
<1>5. backlog' \in Seq(Clients) /\ Len(backlog') <= Backlog
  <2>1. backlog \in Seq(Clients) /\ Len(backlog) <= Backlog
    BY DEF TypeOK
  <2>2. CASE UNCHANGED backlog
    BY <2>1, <2>2
  <2>3. CASE Len(backlog) < Backlog /\ backlog' = Append(backlog, c)
    BY <2>1, <2>3, BacklogAssumption
  <2> QED
    BY <2>2, <2>3
<1>6. TypeOK'
  BY <1>0, <1>2, <1>4, <1>5 DEF TypeOK, CgiType, ConnType
<1>7. NoneLeftOpen'
  BY <1>0, <1>4 DEF NoneLeftOpen
<1>8. Progress'
  BY <1>3, <1>4 DEF Progress
<1>9. Obeyed'
  <2>1. pc \in {"dispatch", "reply"} => cur \in Clients
    BY DEF TypeOK, Serving
  <2> QED
    BY <1>0, <1>3, <1>4, <2>1 DEF Obeyed
<1>10. StopOnlyIfAsked'
  BY <1>0, <1>3, <1>4 DEF StopOnlyIfAsked
<1> QED
  BY <1>0, <1>6, <1>7, <1>8, <1>9, <1>10 DEF SignalSent

LEMMA CgiIInv ==
  ASSUME IInv, NEW c \in Clients,
         CgiReject(c) \/ CgiConnect(c) \/ CgiNoConnect(c) \/ CgiRun(c) \/ HttpdKill(c)
  PROVE  IInv'
<1>1. CASE CgiReject(c) \/ CgiNoConnect(c) \/ CgiTimeout(c) \/ HttpdKill(c)
  BY <1>1, AnswerIInv DEF CgiReject, CgiNoConnect, CgiTimeout, HttpdKill
<1>2. CASE CgiConnect(c)
  BY <1>2, GotoIInv DEF CgiConnect, Room
<1>3. CASE CgiWrite(c)
  <2>1. CASE conn[c].end = "closed"
    BY <1>3, <2>1, AnswerIInv DEF CgiWrite
  <2>2. CASE conn[c].end # "closed"
    BY <1>3, <2>2, GotoIInv DEF CgiWrite
  <2> QED
    BY <2>1, <2>2
<1>4. CASE CgiRead(c)
  <2>1. conn[c].reply \in Replies
    BY DEF IInv, TypeOK
  <2>2. CASE cgi[c].pc = "header" /\ Goto(c, "answer")
    BY <1>4, <2>2, GotoIInv DEF CgiRead
  <2>3. CASE Answer(c, "502")
    BY <1>4, <2>3, AnswerIInv DEF CgiRead
  <2>4. CASE Answer(c, conn[c].reply)
    BY <1>4, <2>1, <2>4, AnswerIInv DEF CgiRead, Replies
  <2> QED
    BY <1>4, <2>2, <2>3, <2>4 DEF CgiRead
<1> QED
  BY <1>1, <1>2, <1>3, <1>4 DEF CgiRun

LEMMA NextIInv == IInv /\ [Next]_vars => IInv'
<1> SUFFICES ASSUME IInv, [Next]_vars PROVE IInv'
  OBVIOUS
<1>1. CASE DaemonNext
  BY <1>1, LoopIInv, AcceptIInv, ServeIInv, CloseAllIInv DEF DaemonNext, Serve
<1>2. CASE \E kind \in Sources \cup {"signal"} : Readable(kind)
  BY <1>2, ReadableIInv
<1>3. CASE \E c \in Clients : CgiReject(c) \/ CgiConnect(c) \/ CgiNoConnect(c)
                             \/ CgiRun(c) \/ HttpdKill(c)
  BY <1>3, CgiIInv
<1>4. CASE UNCHANGED vars
  <2>1. UNCHANGED <<pc, batch, pending, backlog, cur, out, shutdown, saved, signalled, cgi, conn>>
    BY <1>4 DEF vars
  <2> QED
    BY <2>1 DEF IInv, TypeOK, NoneLeftOpen, Progress, Obeyed, SignalSent, StopOnlyIfAsked
<1> QED
  BY <1>1, <1>2, <1>3, <1>4 DEF Next

LEMMA AlwaysIInv == Spec => []IInv
<1> QED
  BY InitIInv, NextIInv, PTL DEF Spec

(* For every number of clients and whatever they do: the daemon shuts down *)
(* only for a signal or a daemon.stop that came whole, and a CGI that      *)
(* shows success for daemon.stop has been obeyed (s_handler_daemon_stop).  *)
THEOREM StopsOnlyWhenAsked == Spec => []StopOnlyIfAsked
<1>1. IInv => StopOnlyIfAsked
  BY DEF IInv
<1> QED
  BY <1>1, AlwaysIInv, PTL

(* For every number of clients and every backlog: a descriptor is open     *)
(* only while its client is served (ml_listener_accept).                   *)
THEOREM ClosesEveryClient == Spec => []NoneLeftOpen
<1>1. IInv => NoneLeftOpen
  BY DEF IInv
<1> QED
  BY <1>1, AlwaysIInv, PTL

(* Every variable keeps its type; the thread has a current client exactly  *)
(* while it serves one, and the backlog keeps its length.                  *)
THEOREM TypeCorrect == Spec => []TypeOK
<1>1. IInv => TypeOK
  BY DEF IInv
<1> QED
  BY <1>1, AlwaysIInv, PTL
=============================================================================
