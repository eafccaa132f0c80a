----------------------------- MODULE MediaBrowser -----------------------------
(***************************************************************************)
(* The media-server browser of xdiscovery (src/src/mediabrowser.c), the    *)
(* rbus methods that serve its list (src/src/dlna-rpc/mbwsr_rpc_srv.c) and *)
(* their client library (src/src/dlna-rpc/mbwsr_rpc_cli.c).                *)
(*                                                                         *)
(* Two threads of the daemon share msList under locker: the main loop,     *)
(* which runs the UPnP callbacks, and the thread on which rbus runs        *)
(* remoteMethodHandler, one call at a time.  The client is one more        *)
(* process: it makes a call and waits for the answer.  After the time      *)
(* limit of rbus the function fails, and the library calls no second time: *)
(* whatever is called next, the application asks for.                      *)
(***************************************************************************)
EXTENDS Integers, Sequences

CONSTANTS
    Udn,        \* media servers
    NoUdn,      \* no server
    MaxCalls    \* bound: calls waiting for the rbus thread

ASSUME UdnAssumption == NoUdn \notin Udn /\ MaxCalls \in Nat \ {0}

VARIABLES
    cache,      \* servers that gupnp has reported and not taken back
    msList,     \* the list of servers
    locker,     \* who holds the mutex
    main,       \* the callback that runs on the main loop
    calls,      \* calls sent and not yet taken up
    rpc,        \* the method that runs on the rbus thread
    client      \* the client: whether it waits, and what it has been told

vars == <<cache, msList, locker, main, calls, rpc, client>>

MaybeUdn == Udn \cup {NoUdn}

\* A call: a method and its argument.
Call == [method : {"size"}, at : {0}, udn : {NoUdn}]
        \cup [method : {"at"}, at : Nat, udn : {NoUdn}]
        \cup [method : {"browse"}, at : {0}, udn : Udn]

NoCall == [method |-> "none", at |-> 0, udn |-> NoUdn]

\* What the client knows: the last size, and the server at every index.
Unknown == [size |-> -1, servers |-> <<>>]

Init ==
    /\ cache = {}
    /\ msList = <<>>
    /\ locker = "free"
    /\ main = [pc |-> "loop", udn |-> NoUdn]
    /\ calls = <<>>
    /\ rpc = [pc |-> "idle", call |-> NoCall]
    /\ client = [waits |-> FALSE, knows |-> Unknown]

\* g_list_find_custom with g_list_find_udn: the position, 0 for NULL.
\* No server is listed twice (Enumerable).
Find(u) ==
    IF \E i \in DOMAIN msList : msList[i] = u
      THEN CHOOSE i \in DOMAIN msList : msList[i] = u
      ELSE 0

-----------------------------------------------------------------------------
(* The callbacks on the main loop. *)

\* gupnp reports a server, or takes one back.
Announce(u) ==
    /\ main.pc = "loop"
    /\ \/ /\ u \notin cache
          /\ cache' = cache \cup {u}
          /\ main' = [pc |-> "lookup", udn |-> u]
       \/ /\ u \in cache
          /\ cache' = cache \ {u}
          /\ main' = [pc |-> "gone", udn |-> u]
    /\ UNCHANGED <<msList, locker, calls, rpc, client>>

\* device_proxy_available_mr_cb looks the server up, under the lock.
Lookup ==
    /\ main.pc = "lookup"
    /\ locker = "free"
    /\ main' = [main EXCEPT !.pc = IF Find(main.udn) # 0 THEN "loop" ELSE "append"]
    /\ UNCHANGED <<cache, msList, locker, calls, rpc, client>>

\* Mutant: the newest server comes first.
MutAdded(u) == <<u>> \o msList

Added(u) == Append(msList, u)

\* ... and appends a new one, under the lock.
AppendServer ==
    /\ main.pc = "append"
    /\ locker = "free"
    /\ msList' = Added(main.udn)
    /\ main' = [main EXCEPT !.pc = "loop"]
    /\ UNCHANGED <<cache, locker, calls, rpc, client>>

\* device_proxy_unavailable_mr_cb drops what its lookup returns and goes on with
\* msListItem, which is NULL: the server stays listed, and the branch for one
\* that is not found returns with the lock held.
Gone ==
    /\ main.pc = "gone"
    /\ locker = "free"
    /\ locker' = "main"
    /\ main' = [main EXCEPT !.pc = "loop"]
    /\ UNCHANGED <<cache, msList, calls, rpc, client>>

-----------------------------------------------------------------------------
(* The client library. *)

\* getDiscoveredMediaServers, getDiscoveredMediaServerAt for an index below
\* the size, or browseContentOnServer for a server the client was told of.
Invoke ==
    /\ ~client.waits
    /\ Len(calls) < MaxCalls
    /\ LET knows == client.knows
       IN \E c \in {[method |-> "size", at |-> 0, udn |-> NoUdn]}
               \cup {[method |-> "at", at |-> i, udn |-> NoUdn] : i \in 0..(knows.size - 1)}
               \cup {[method |-> "browse", at |-> 0, udn |-> knows.servers[i]]
                       : i \in {j \in DOMAIN knows.servers : knows.servers[j] # NoUdn}} :
            calls' = Append(calls, c)
    /\ client' = [client EXCEPT !.waits = TRUE]
    /\ UNCHANGED <<cache, msList, locker, main, rpc>>

\* rbusMethod_Invoke reports an error, and the function returns FALSE; the call
\* stays where it is.  The application may make another one.
GiveUp ==
    /\ client.waits
    /\ client' = [client EXCEPT !.waits = FALSE]
    /\ UNCHANGED <<cache, msList, locker, main, calls, rpc>>

-----------------------------------------------------------------------------
(* remoteMethodHandler on the rbus thread. *)

\* The answer reaches the client if it still waits for this call, the newest.
Answer(knows) ==
    /\ rpc' = [pc |-> "idle", call |-> NoCall]
    /\ client' = IF client.waits /\ calls = <<>>
                   THEN [waits |-> FALSE, knows |-> knows]
                   ELSE client

\* The next call is taken up.
Take ==
    /\ rpc.pc = "idle"
    /\ calls # <<>>
    /\ calls' = Tail(calls)
    /\ rpc' = [rpc EXCEPT !.pc = "start", !.call = Head(calls)]
    /\ UNCHANGED <<cache, msList, locker, main, client>>

\* The two listing methods look at msList without the lock: an empty list is
\* answered at once (size 0, or no server).
Start ==
    /\ rpc.pc = "start"
    /\ IF msList = <<>> /\ rpc.call.method # "browse"
         THEN Answer(IF rpc.call.method = "size" THEN [client.knows EXCEPT !.size = 0]
                     ELSE client.knows)
         ELSE /\ rpc' = [rpc EXCEPT !.pc = "lock"]
              /\ UNCHANGED client
    /\ UNCHANGED <<cache, msList, locker, main, calls>>

\* The size of the list.
Size ==
    /\ rpc.pc = "lock" /\ rpc.call.method = "size"
    /\ locker = "free"
    /\ locker' = "free"
    /\ Answer([client.knows EXCEPT !.size = Len(msList)])
    /\ UNCHANGED <<cache, msList, main, calls>>

\* getServerDetails: the server at an index, g_list_nth, or none.  The client
\* keeps it at that index.
ServerAt ==
    /\ rpc.pc = "lock" /\ rpc.call.method = "at"
    /\ locker = "free"
    /\ locker' = "free"
    /\ LET i == rpc.call.at + 1
           u == IF i <= Len(msList) THEN msList[i] ELSE NoUdn
           s == client.knows.servers
       IN Answer([client.knows EXCEPT !.servers =
                    [j \in 1..(IF i > Len(s) THEN i ELSE Len(s)) |->
                       IF j = i THEN u ELSE IF j <= Len(s) THEN s[j] ELSE NoUdn]])
    /\ UNCHANGED <<cache, msList, main, calls>>

\* browse_remote_dir_with_udn looks the server up under the lock; one that is not
\* listed fails the call.
BrowseFind ==
    /\ rpc.pc = "lock" /\ rpc.call.method = "browse"
    /\ locker = "free"
    /\ locker' = "free"
    /\ IF Find(rpc.call.udn) = 0
         THEN Answer(client.knows)
         ELSE /\ rpc' = [rpc EXCEPT !.pc = "browse"]
              /\ UNCHANGED client
    /\ UNCHANGED <<cache, msList, main, calls>>

\* browse_remote_directory asks the server, without the lock; the request
\* succeeds or fails.
BrowseRequest ==
    /\ rpc.pc = "browse"
    /\ Answer(client.knows)
    /\ UNCHANGED <<cache, msList, locker, main, calls>>

-----------------------------------------------------------------------------
MainStep == Lookup \/ AppendServer \/ Gone

RpcStep == Take \/ Start \/ Size \/ ServerAt \/ BrowseFind \/ BrowseRequest

Next ==
    \/ \E u \in Udn : Announce(u)
    \/ MainStep
    \/ Invoke
    \/ GiveUp
    \/ RpcStep

Spec == Init /\ [][Next]_vars

\* Both threads are scheduled, and a Browse request is answered or times out.
FairSpec == Spec /\ WF_vars(MainStep) /\ WF_vars(RpcStep)

-----------------------------------------------------------------------------
(* Properties. *)

\* Every variable has its type; in particular the rbus thread never keeps the
\* lock from one step to the next.
TypeOK ==
    /\ cache \subseteq Udn
    /\ msList \in Seq(Udn)
    /\ locker \in {"free", "main"}
    /\ main \in [pc : {"loop", "lookup", "append", "gone"}, udn : MaybeUdn]
    /\ calls \in Seq(Call)
    /\ rpc \in [pc : {"idle", "start", "lock", "browse"}, call : Call \cup {NoCall}]
    /\ client \in [waits : BOOLEAN, knows : [size : Int, servers : Seq(MaybeUdn)]]

\* A client that asks for the size and then for index after index, each under a
\* lock of its own (remoteMethodHandler), while servers are appended between its
\* calls and answers come late, meets no server twice, and what it was told
\* about an index stays true.
Enumerable ==
    LET s == client.knows.servers
    IN \A i \in DOMAIN s : \A j \in DOMAIN s :
         /\ i # j => s[i] # s[j] \/ s[i] = NoUdn
         /\ s[i] # NoUdn => i <= Len(msList) /\ msList[i] = s[i]

\* "Returns a count of discovered servers" (getDiscoveredMediaServers): a
\* method that was called returns.
MethodReturns == rpc.pc # "idle" ~> rpc.pc = "idle"
=============================================================================
