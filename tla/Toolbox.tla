------------------------------ MODULE Toolbox ------------------------------
(***************************************************************************)
(* The system prompt and the tools behind it (harness/agent.py,            *)
(* harness/mcp/tools.py, harness/mcp_server/bridge.py).  Native tools come *)
(* in packs, bridged ones from external servers that come and go; a few    *)
(* are shown with their signatures, the rest by name.  The streaming path  *)
(* builds prompt and index once for a process, the blocking path each      *)
(* time.  A tool is known by its name and by who provides it.              *)
(***************************************************************************)
EXTENDS Naturals, Sequences, SequencesExt, FiniteSets

CONSTANTS Voices,         \* contents of persona.md; "" is an empty file
          ToolboxFaults   \* sets of faults, one chosen per behaviour: "clash" two servers offer one name

VARIABLES persona,     \* persona.md as it is on disk
          up,          \* servers that answer
          toolCache,   \* bridge._tool_cache: the bridged tools in the order found, or NoCache
          sysCache,    \* agent._SYS_CACHE, or NoCache
          sent,        \* the system prompt of the last streamed turn of this process, or NoCache
          index,       \* the tool_index of the last turn: name -> provider
          prompt,      \* its system prompt
          result,      \* what the last call returned
          tbfaults

tbvars == <<persona, up, toolCache, sysCache, sent, index, prompt, result, tbfaults>>

NoCache == <<>>
Server == <<"one", "two">>            \* in the order of mcp_servers.json
Tool(name, by) == <<name, by>>
Name(t) == t[1]
Provider(t) == t[2]

\* default_tools: shown in full. read_file is in two packs, and a server offers one too.
Core == <<Tool("remember", "memory"), Tool("search", "system")>>
Packs == <<Tool("remember", "memory"), Tool("search", "system"), Tool("read_file", "system"), Tool("read_file", "coding")>>
Offers(s) == IF s = "one" THEN {"read_file", "weather"} ELSE IF "clash" \in tbfaults THEN {"weather"} ELSE {"maps"}

-----------------------------------------------------------------------------
(* bridge.py *)

\* list_bridged_tools: the servers in order; one that does not answer is left out. A full cache is
\* what is returned, whatever has changed.
Found == FlattenSeq([i \in 1..2 |-> IF Server[i] \in up
                                    THEN SetToSeq({Tool(n, Server[i]) : n \in Offers(Server[i])}) ELSE <<>>])
BridgedTools == IF toolCache # NoCache THEN toolCache[1] ELSE Found

\* Faulty: the native names are not looked at.
ToolSpecsAll(native) == BridgedTools
\* mcp_toolspecs: a name that is native is skipped.
McpToolSpecs(native) == SelectSeq(BridgedTools, LAMBDA t : Name(t) \notin native)

-----------------------------------------------------------------------------
(* all_tools, extra_tools, build_tool_system, load_agent_system *)

Names(tools) == {Name(tools[i]) : i \in DOMAIN tools}

\* The first tool of a name, in the order of the packs.
FirstWins(tools) ==
    SelectSeq(tools, LAMBDA t : t = tools[CHOOSE i \in DOMAIN tools :
        Name(tools[i]) = Name(t) /\ \A j \in DOMAIN tools : Name(tools[j]) = Name(t) => i <= j])

AllTools == FirstWins(Packs) \o McpToolSpecs(Names(Packs))
ExtraTools == SelectSeq(AllTools, LAMBDA t : Name(t) \notin Names(Core))

\* all_specs: a dictionary, so of two tools of one name the later one runs.
IndexOf(tools) ==
    [n \in Names(tools) |-> Provider(tools[CHOOSE i \in DOMAIN tools :
        Name(tools[i]) = n /\ \A j \in DOMAIN tools : Name(tools[j]) = n => j <= i])]

\* load_agent_system, or the built-in prompt if the file is empty. The standing world, which is
\* cached for the process, is the module World's.
Voice == IF persona = "" THEN "built-in" ELSE persona

\* The prompt ends with the voice coda, which is from the same file.
Build(core, extra) ==
    [content |-> [voice |-> Voice, ready |-> core, listed |-> extra, coda |-> persona],
     index   |-> IndexOf(core \o extra)]

-----------------------------------------------------------------------------
ToolboxInit ==
    /\ persona \in Voices /\ up \in SUBSET {"one", "two"} /\ tbfaults \in ToolboxFaults
    /\ toolCache = NoCache /\ sysCache = NoCache /\ sent = NoCache
    /\ index = <<>> /\ prompt = NoCache /\ result = "none"

Uses(system) == index' = system.index /\ prompt' = <<system.content>> /\ result' = "none"

\* The one that was built first.
System == IF sysCache # NoCache THEN sysCache[1] ELSE Build(Core, ExtraTools)

\* agent_chat_stream with tools=None.
StreamTurn ==
    /\ sysCache' = <<System>>
    /\ toolCache' = IF sysCache = NoCache THEN <<BridgedTools>> ELSE toolCache
    /\ sent' = <<System.content>> /\ Uses(System)
    /\ UNCHANGED <<persona, up, tbfaults>>

\* agent_chat_stream with tools of the caller's: the cached prompt is neither used nor replaced.
ScopedTurn(tools) ==
    /\ Uses(Build(tools, <<>>))
    /\ UNCHANGED <<persona, up, toolCache, sysCache, sent, tbfaults>>

\* agent_chat, run_with_tools: the same prompt, built again.
BlockTurn ==
    /\ toolCache' = <<BridgedTools>> /\ Uses(Build(Core, ExtraTools))
    /\ UNCHANGED <<persona, up, sysCache, sent, tbfaults>>

\* A call by name, which returns a text whatever happens: a native tool caps what it shows, a bridged
\* one opens its server for this call and reports that it cannot.
CallTool(n) ==
    /\ n \in DOMAIN index
    /\ result' \in IF index[n] \in ToSet(Server) \ up THEN {"mcp tool error"}
                   ELSE {"output", "truncated", "nothing to show", "tool error"}
    /\ UNCHANGED <<persona, up, toolCache, sysCache, sent, index, prompt, tbfaults>>

EditPersona(v) ==
    /\ persona' = v /\ v # persona
    /\ UNCHANGED <<up, toolCache, sysCache, sent, index, prompt, result, tbfaults>>

Toggle(s) ==
    /\ up' = IF s \in up THEN up \ {s} ELSE up \cup {s}
    /\ UNCHANGED <<persona, toolCache, sysCache, sent, index, prompt, result, tbfaults>>

Restart ==
    /\ toolCache' = NoCache /\ sysCache' = NoCache /\ sent' = NoCache
    /\ index' = <<>> /\ prompt' = NoCache /\ result' = "none"
    /\ UNCHANGED <<persona, up, tbfaults>>

ToolboxNext ==
    \/ StreamTurn \/ BlockTurn \/ Restart
    \/ \E tools \in {<<>>, <<Tool("search", "system")>>} : ScopedTurn(tools)
    \/ \E n \in DOMAIN index : CallTool(n)
    \/ \E v \in Voices : EditPersona(v)
    \/ \E s \in ToSet(Server) : Toggle(s)
ToolboxSpec == ToolboxInit /\ [][ToolboxNext]_tbvars

-----------------------------------------------------------------------------
Shown == ToSet(prompt[1].ready) \cup ToSet(prompt[1].listed)

\* The streamed turns of one process all send the same system prompt, so the resident
\* cache never diverges at token 0, through edits of the persona, servers that come and
\* go and turns of the other kinds in between.
PrefixStillStep ==
    sent # NoCache /\ sent' # NoCache => sent' = sent
PrefixStill == [][PrefixStillStep]_tbvars

\* A native tool keeps its name against every server, and the first pack's tool of a
\* name against the later ones.
NativeWins == \A n \in DOMAIN index :
    (n \in Names(Packs) => index[n] \in {"memory", "system"})

\* What she is shown is what runs: every tool shown by signature or by name is the one
\* the executor holds under it, unless two servers offer one name.
ShownIsRun == prompt # NoCache /\ "clash" \notin tbfaults => \A t \in Shown : index[Name(t)] = Provider(t)
=============================================================================
