--------------------------- MODULE MCHostShutdown ---------------------------
(***************************************************************************)
(* Two parts that live by deadlines, checked side by side: the shutdown of *)
(* the host, and the debug probe of the shell, which keeps nobody waiting  *)
(* for a client.  `part` says which one a behaviour is about; the other    *)
(* one stays as it begins, so that the states are the sum of theirs.       *)
(***************************************************************************)
EXTENDS HostShutdown

CONSTANTS MaxTokenLine, MaxReadFailures, MaxBadLines, MaxClients

(* More time, more than the cap leaves, none, and a negative amount.       *)
Asked == {-3, 0, 1, 5}

MCToken == <<"token byte">>

\* The first client may be anybody, the second one is what the first may harm.
MCScripts == <<
    {<<"token byte">>, <<"wrong byte", "token byte", "token byte">>,
     <<"token byte", "cr", "nl", "frame">>, <<"token byte", "nl", "junk", "blank", "junk">>},
    {<<"token byte", "nl", "frame">>}>>

\* A device on which everything works, and those of which something does not:
\* no window, a web view that does not answer, a build that is not debuggable
\* or can not tell, and a token that is not minted or finds no directory.
MCWorks == [window |-> "alive", answers |-> TRUE, throws |-> {},
            flags |-> {"debuggable", "system"}, mounted |-> TRUE, random |-> TRUE,
            private |-> {"app_data", "app_cache"}, takes |-> {"external", "app_cache"},
            binds |-> TRUE]

MCDevices ==
    {MCWorks} \cup
    {[MCWorks EXCEPT !.window = w] : w \in {"none", "dead"}} \cup
    {[MCWorks EXCEPT !.throws = {t}, !.takes = {"external"}] :
        t \in {"getApplicationInfo", "flags", "getExternalFilesDir", "getAbsolutePath"}} \cup
    {[MCWorks EXCEPT !.answers = FALSE], [MCWorks EXCEPT !.flags = {"system"}],
     [MCWorks EXCEPT !.random = FALSE],  [MCWorks EXCEPT !.binds = FALSE],
     [MCWorks EXCEPT !.mounted = FALSE, !.takes = {"external"}],
     [MCWorks EXCEPT !.mounted = FALSE, !.private = {}]}

VARIABLES part, device, loop, client, socket, wire, reader

Probe == INSTANCE DebugProbe WITH Scripts <- MCScripts, Token <- MCToken, Devices <- MCDevices

probeVars == <<device, loop, client, socket, wire, reader>>

MCInit ==
    /\ part \in {"shutdown", "probe"}
    /\ Init /\ Probe!Init
    /\ part # "probe" => device = MCWorks
    /\ ~client[2].talks
    /\ (part # "probe" \/ device # MCWorks) =>
        client = [c \in Probe!Clients |->
                    [script |-> CHOOSE s \in MCScripts[c] : TRUE,
                     talks |-> FALSE, hungup |-> FALSE]]

MCNext ==
    /\ UNCHANGED part
    /\ \/ part = "shutdown" /\ Next       /\ UNCHANGED probeVars
       \/ part = "probe"    /\ Probe!Next /\ UNCHANGED vars

MCSpec ==
    /\ MCInit /\ [][MCNext]_<<part, vars, probeVars>>
    /\ part = "shutdown" => Fairness
    /\ part = "probe" => Probe!Fairness

(* No client keeps the next one out.                                       *)
EveryClientHasItsTurn == part = "probe" => Probe!EveryClientHasItsTurn

(* The reader of a session that is over ends.                              *)
OldReadersEnd == part = "probe" => Probe!OldReadersEnd
=============================================================================
