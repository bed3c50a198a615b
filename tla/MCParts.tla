------------------------------ MODULE MCParts ------------------------------
(* The parts of the program that share no state, for TLC. What one part    *)
(* does is no condition of what another can do, so a behaviour in which    *)
(* only one of them moves shows all that this part can do; which one is    *)
(* chosen at the start, and the rest stays as it was.                      *)
EXTENDS Request, Server, ConfigWatch, CirQueue, TaskGroup, FileBackup,
        EmptyDirs, Chunks, Derive, Pages, RowUpdate, TokenDelay, TLC

CONSTANTS r1, r2, r3

-----------------------------------------------------------------------------
(* Chains: those of setupRouter, one with every guard, the same with the   *)
(* guards ignored, and two with Recover, with and without a trace id.      *)
MCChain ==
  LET base == <<"recovery", "metrics", "logger", "body">> IN
  [version |-> base \o <<"auth", "wrap">>,
   stats   |-> base \o <<"stats">>,
   nowhere |-> base \o <<"noroute">>,
   guarded |-> base \o <<"limit", "length", "auth", "level", "etag", "wrap">>,
   limited |-> <<"metrics", "limit", "wrap">>,
   asked   |-> <<"limit", "noroute">>,
   rated   |-> <<"metrics", "rate", "wrap">>,
   custom  |-> base \o <<"custom", "wrap">>,
   open    |-> base \o <<"limit", "length", "auth", "level", "wrap">>,
   bare    |-> <<"recover", "etag", "wrap">>,
   own     |-> <<"recover", "metrics", "logger", "recover", "wrap">>]

MCIgnored == {<<h, "open">> : h \in {"limit", "length", "auth", "level"}}

Good == [secret |-> Secret, fresh |-> TRUE, level |-> 1]
Brought(t, b, m, d) == [token |-> t, body |-> b, match |-> m, debug |-> d]
Form == Brought(Good, "form", FALSE, FALSE)

\* One request asks for anything, another for what interferes with it; all
\* three may meet at the limiter.
MCCalls ==
  r1 :> ({<<x, Form>> : x \in DOMAIN MCChain}
         \cup {<<"guarded", Brought(t, "form", FALSE, FALSE)>> :
                 t \in {NoToken, [Good EXCEPT !.fresh = FALSE], [Good EXCEPT !.level = 2],
                        [Good EXCEPT !.secret = OtherSecret]}}
         \cup {<<"guarded", Brought(Good, "large", FALSE, TRUE)>>,
               <<"guarded", Brought(Good, "none", TRUE, FALSE)>>,
               <<"open", Brought(NoToken, "large", FALSE, FALSE)>>}
         \cup {<<"version", Brought(Good, b, FALSE, d)>> : d \in BOOLEAN,
                 b \in {"longform", "cutform", "bad", "chunked"}})
  @@ r2 :> {<<"limited", Form>>, <<"rated", Form>>, <<"asked", Form>>}
  @@ r3 :> {<<"asked", Form>>}

MCClient == [r \in Requests |-> "client"]

MCPageSizes == -1..4

-----------------------------------------------------------------------------
VARIABLE part

Parts == {"request", "limit", "server", "config", "ring", "group", "backup", "dirs",
          "chunks", "derive", "pages", "row", "delay"}

\* Time passes and the sweep runs for requests that ask for nothing but the
\* limiter; the whole chains are gone through while it stands still.
InTime == \A r \in Requests : ctx'[r].route \in {"", "asked"}
AtOnce ==
  UNCHANGED <<time, sweeping>> /\ \A r \in Requests : ctx'[r].route # "asked"

\* A part that is not chosen starts in one of its initial states.
Fixed(p, start) == part # p => start

Init ==
  /\ part \in Parts
  /\ RequestInit /\ ServerInit /\ BackupInit /\ DelayInit
  /\ RowInit /\ Fixed("row", sqlite = FALSE)
  /\ ConfigInit /\ Fixed("config", file = NoFile)
  /\ RingInit /\ Fixed("ring", size = 1)
  /\ GroupInit /\ Fixed("group", endless = {})
  /\ DirsInit /\ Fixed("dirs", files = {} /\ recent = {0} /\ \A d \in 1..MaxDir : parent[d] = 0)
  /\ ChunksInit /\ Fixed("chunks", how = "sse" /\ job = <<>>)
  /\ DeriveInit /\ Fixed("derive", derives = "error")
  /\ PagesInit /\ Fixed("pages", pageSize = 1 /\ page = 1 /\ rows = 0)

Rest(p, vars) == IF part = p THEN TRUE ELSE UNCHANGED vars

Alone ==
  /\ UNCHANGED part
  /\ part # "limit" => Rest("request", reqvars)
  /\ Rest("server", servervars)
  /\ Rest("config", configvars) /\ Rest("ring", ringvars)
  /\ Rest("group", groupvars) /\ Rest("backup", backupvars)
  /\ Rest("dirs", dirvars) /\ Rest("chunks", chunkvars)
  /\ Rest("derive", derivevars) /\ Rest("pages", pagevars)
  /\ Rest("row", rowvars) /\ Rest("delay", delayvars)

In(p, A) == part = p /\ A /\ Alone

Next ==
  \/ In("request", RequestNext /\ AtOnce)
  \/ In("limit", RequestNext /\ InTime)
  \/ In("server", ServerNext)
  \/ In("config", ConfigNext)
  \/ In("ring", RingNext)
  \/ In("group", GroupNext)
  \/ In("backup", BackupNext)
  \/ In("dirs", DirsNext)
  \/ In("chunks", ChunksNext)
  \/ In("derive", DeriveNext)
  \/ In("pages", PagesNext)
  \/ In("row", RowNext)
  \/ In("delay", DelayNext)

vars == <<part, reqvars, servervars, configvars, ringvars, groupvars, backupvars,
          dirvars, chunkvars, derivevars, pagevars, rowvars, delayvars>>

Spec ==
  /\ Init /\ [][Next]_vars
  /\ WF_vars(In("server", Start \/ Serve \/ ServeEnds))
  /\ WF_vars(In("server", NotifySignals \/ Run \/ Shutdown))
  /\ WF_vars(In("server", Timeout))
  /\ WF_vars(In("config", WatchConfig))
  /\ WF_vars(In("group", Wait \/ UnsafeWaitWithContext))
  /\ WF_vars(In("group", HelperWait))
  /\ \A t \in Tasks : WF_vars(In("group", Begin(t) \/ Ends(t) \/ DoneDeferred(t)))
=============================================================================
