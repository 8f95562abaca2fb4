----------------------------- MODULE Measurement -----------------------------
(***************************************************************************)
(* A whole measurement: the load of TcpClient, then what main of           *)
(* tcp_client.c does with it.  After a healthy run it fetches the server's *)
(* statistics and writes them and the log to disk; after a failed one it   *)
(* asks the server for its dangling connections.  The control loop of the  *)
(* servers (main, on_stats, on_error of tcp_echo.c) answers both: one      *)
(* event at a time, each answer a size and then the text, of which either  *)
(* side moves any part at a time.                                          *)
(*                                                                         *)
(* The workers of the server are external: any of them may end it.         *)
(***************************************************************************)
EXTENDS TcpClient

CONSTANT TEXT           \* BOUND: the parts a text is written and read in

ASSUME MeasurementAssumption == TEXT \in Nat \ {0}

VARIABLES
    mainpc,     \* main: "join", "dial", "size", "text", "save", or how it ended:
                \* "returned" 0, "failed" or "reported" with exit(1)
    up,         \* whether the server's process is there
    spc,        \* the control loop: "wait" (epoll_wait) or "write"
    ctl,        \* the control connection: "none", "backlog", "open", "shut" (in
                \* both directions) or "closed", as the server has it
    sent,       \* what the server wrote to it: the size, and parts of the text
    got         \* what the client read of that

control == <<mainpc, up, spc, ctl, sent, got>>
mvars   == <<vars, control>>

Whole == 1 + TEXT
Ended == mainpc \in {"returned", "failed", "reported"} \/ wpc = "exit"

MeasurementInit ==
    /\ Init
    /\ mainpc = "join" /\ up = TRUE /\ spc = "wait" /\ ctl = "none"
    /\ sent = 0 /\ got = 0

-----------------------------------------------------------------------------
(* main of the client *)

Main(p) == mainpc' = p /\ UNCHANGED <<vars, up, spc, sent>>
GivesUp == Main(IF dying THEN "reported" ELSE "failed")

\* All workers have ended.
Join ==
    /\ mainpc = "join" /\ wpc = "done"
    /\ Main("dial") /\ UNCHANGED <<ctl, got>>

\* do_connect to the statistics port, or to the error port if dying.
Dial ==
    /\ mainpc = "dial"
    /\ \/ up /\ ctl' = "backlog" /\ Main("size")
       \/ (~up \/ faulty) /\ GivesUp /\ UNCHANGED ctl
    /\ UNCHANGED got

\* Nothing more will come: a read returns 0.
AtEnd == got = sent /\ (ctl \in {"shut", "closed"} \/ ~up)

\* ABSTRACTION: the eight bytes of the size come together.
ReadSize ==
    /\ mainpc = "size"
    /\ \/ sent > 0 /\ got' = 1 /\ Main("text")
       \/ (AtEnd \/ faulty) /\ GivesUp /\ UNCHANGED got
    /\ UNCHANGED ctl

\* The text is read until it is whole; the statistics are taken for whole when a
\* read returns 0, too, and in the variant after any read.
More_Not(n) == FALSE
More(n)     == got + n < Whole
ReadText ==
    /\ mainpc = "text"
    /\ \/ \E n \in 1 .. sent - got :
            /\ got' = got + n
            /\ Main(IF More(n) THEN "text" ELSE IF dying THEN "reported" ELSE "save")
       \/ AtEnd /\ Main(IF dying THEN "reported" ELSE "save") /\ UNCHANGED got
       \/ faulty /\ GivesUp /\ UNCHANGED got
    /\ UNCHANGED ctl

\* Statistics and log are written; a short text is padded with NULs.
Save ==
    /\ mainpc = "save"
    /\ Main("returned") \/ (faulty /\ Main("failed"))
    /\ UNCHANGED <<ctl, got>>

client_main == Join \/ Dial \/ ReadSize \/ ReadText \/ Save

-----------------------------------------------------------------------------
(* The control loop of the server: one event of epoll_wait at a time *)

Control == up /\ UNCHANGED <<vars, mainpc, got>>

\* on_stats, and on_error if it has something to tell: accept, register for
\* EPOLLHUP, write the size.
OnControl ==
    /\ Control
    /\ spc = "wait" /\ ctl = "backlog"
    /\ ctl' = "open" /\ spc' = "write" /\ sent' = 1
    /\ UNCHANGED up

\* on_error finds no connection in conns[].
OnErrorNone ==
    /\ Control
    /\ spc = "wait" /\ ctl = "backlog" /\ dying
    /\ ctl' = "closed"
    /\ UNCHANGED <<up, spc, sent>>

\* The text is written; shutdown of the second direction at its end raises
\* EPOLLHUP.  A client that is gone ends the server.  The variant leaves the
\* connection half open.
Shut_Not == "open"
Shut     == "shut"
WriteText ==
    /\ Control
    /\ spc = "write"
    /\ \/ \E n \in 1 .. Whole - sent :
            /\ sent' = sent + n
            /\ IF sent + n = Whole THEN spc' = "wait" /\ ctl' = Shut
                                   ELSE UNCHANGED <<spc, ctl>>
            /\ UNCHANGED up
       \/ Ended /\ up' = FALSE /\ UNCHANGED <<spc, ctl, sent>>

\* EPOLLHUP
Hangup ==
    /\ Control
    /\ spc = "wait" /\ ctl = "shut"
    /\ ctl' = "closed"
    /\ UNCHANGED <<up, spc, sent>>

control_loop == OnControl \/ OnErrorNone \/ WriteText \/ Hangup

\* A worker of the server calls exit, or the server is stopped.  (What that does
\* to the load is Lost of TcpClient.)
ServerEnds ==
    /\ faulty /\ up /\ mainpc # "join"
    /\ up' = FALSE
    /\ UNCHANGED <<vars, mainpc, spc, ctl, sent, got>>

MeasurementNext ==
    \/ Next /\ mainpc = "join" /\ UNCHANGED control
    \/ client_main \/ control_loop \/ ServerEnds

MeasurementSpec == MeasurementInit /\ [][MeasurementNext]_mvars

\* As FairSpec of TcpClient; main and the control loop are scheduled.
FairMeasurementSpec ==
    /\ MeasurementSpec
    /\ WF_mvars(Worker /\ UNCHANGED <<env, control>>)
    /\ \A j \in Client : WF_mvars((Connected(j) \/ Echo(j)) /\ Network(j) /\ UNCHANGED <<env, control>>)
    /\ WF_mvars(client_main) /\ WF_mvars(control_loop)

-----------------------------------------------------------------------------
(* Properties *)

MeasurementTypeOK ==
    /\ mainpc \in {"join", "dial", "size", "text", "save", "returned", "failed", "reported"}
    /\ up \in BOOLEAN
    /\ spc \in {"wait", "write"}
    /\ ctl \in {"none", "backlog", "open", "shut", "closed"}
    /\ sent \in 0 .. Whole /\ got \in 0 .. sent

\* A measurement that returns 0 has done every transaction, without a failure of
\* any worker, and has the whole statistics, unless the server ended meanwhile.
SoundOutcome == mainpc = "returned" =>
    complete = total /\ ~dying /\ (got = Whole \/ ~up)

\* The control loop closes the connections it accepted, whatever the client does.
ControlClosed == ctl \in {"open", "shut"} ~> ctl = "closed" \/ ~up

\* With a healthy server a measurement does every transaction and gets there.
Measured == immediate \/ faulty \/ <>(mainpc = "returned" /\ complete = total /\ got = Whole)

\* "We want to dump state if we died" (tcp_client.c:502): a program that ends with
\* a failed worker has reported.
FailureReported == Ended /\ dying => mainpc = "reported"

=============================================================================
