---------------------------- MODULE UpcallService ----------------------------
(***************************************************************************)
(* What libupcall promises the callbacks of one worker: a request is       *)
(* answered at most once and never forgotten before that, and a buffer     *)
(* belongs either to the callbacks or to the service, which hands it over  *)
(* with the answer of one read.                                            *)
(***************************************************************************)
CONSTANTS Type, Req,      \* kinds of request, and the requests
          Buf, NoBuf      \* buffers, and "no buffer"

Entry == [type : Type, req : Req]

VARIABLES outstanding,    \* requests made and not answered
          answering,      \* {e} while the answer of e is being handled, else {}
          pool,           \* buffers the service owns
          owned           \* buffers the callbacks own

svars == <<outstanding, answering, pool, owned>>

ServiceInit ==
    /\ outstanding = {}
    /\ answering = {}
    /\ pool \in SUBSET Buf
    /\ owned = {}

Request(e) ==
    /\ \A o \in outstanding : o.req # e.req
    /\ outstanding' = outstanding \cup {e}
    /\ UNCHANGED <<answering, pool, owned>>

\* A callback starts; that of a read may be given a buffer.
Answer(e, b) ==
    /\ e \in outstanding
    /\ e.type # "close"
    /\ answering = {}
    /\ b # NoBuf => e.type = "read" /\ b \in pool
    /\ outstanding' = outstanding \ {e}
    /\ answering' = {e}
    /\ pool' = pool \ {b}
    /\ owned' = owned \cup ({b} \ {NoBuf})

\* A close has no callback.
Retire(e) ==
    /\ e \in outstanding
    /\ e.type = "close"
    /\ outstanding' = outstanding \ {e}
    /\ UNCHANGED <<answering, pool, owned>>

Done ==
    /\ answering # {}
    /\ answering' = {}
    /\ UNCHANGED <<outstanding, pool, owned>>

\* A buffer the callbacks own, or a new one, is given to the service.
Give(b) ==
    /\ b \notin pool
    /\ pool' = pool \cup {b}
    /\ owned' = owned \ {b}
    /\ UNCHANGED <<outstanding, answering>>

ServiceNext ==
    \/ \E e \in Entry : Request(e) \/ Retire(e)
    \/ \E e \in Entry, b \in Buf \cup {NoBuf} : Answer(e, b)
    \/ Done
    \/ \E b \in Buf : Give(b)

ServiceSpec == ServiceInit /\ [][ServiceNext]_svars

=============================================================================
