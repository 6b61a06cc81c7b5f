----------------------------- MODULE MCServices -----------------------------
(***************************************************************************)
(* Services that do not meet, checked in one run: a behaviour is one of    *)
(* the service that part names, and the others stay as they began.         *)
(*   hub       two publishers, a client that connects up to twice          *)
(*   ring      the ring of the hub alone, over twice its capacity          *)
(*   plugins   one plugin with a process, two without, two installers     *)
(*   refactor  two transactions over two files                             *)
(*   letters   two dead letters, two calls that retry                      *)
(*   inboxes   four messages to one agent, two readers                     *)
(*   tools     one run of the executor, three tools, four iterations       *)
(*   watchdog  the watchdog over the global scope, where its halts and     *)
(*             others' meet, a goroutine that halts and resolves, a        *)
(*             failing store and a restart                                 *)
(***************************************************************************)
EXTENDS LateJoin, Plugins, Refactor, DeadLetters, CommHub,
        ToolLoop, Watchdog, TLC

CONSTANTS p1, p2, c1, c2, c3, k1, k2, t1,  \* hub
          q1, q2, q3, f1, f2, x1, x2, a1,
          n1, n2, n3,                      \* tools
          i1, i2, w1                       \* watchdog

VARIABLE part

Everything == [s \in SubIds |-> Types]
Numbered == [seq: 1..MaxSeq, from: Publishers, type: Types]
Zero == [seq |-> 0, from |-> p1, type |-> t1]

ToOne == [n \in Notes |-> a1]

Flat == Global :> <<>>

ServicesInit ==
    /\ part \in {"hub", "ring", "plugins", "refactor", "letters", "inboxes",
                 "tools", "watchdog"}
    /\ JoinInit /\ PluginsInit /\ RefactorInit /\ OfficeInit /\ CommInit
    /\ LoopInit /\ WInit

HubStep ==
    /\ part = "hub" /\ HubNext
    /\ UNCHANGED <<part, pluginVars, refactorVars, officeVars,
                   commVars, loopVars, allVars>>

\* Bound: 2 * Capacity pushes.
RingStep ==
    /\ part = "ring" /\ Len(pushed) < 2 * Capacity /\ RingNext
    /\ UNCHANGED <<part, busVars, joinVars, pluginVars, refactorVars,
                   officeVars, commVars, loopVars, allVars>>

PluginsStep ==
    /\ part = "plugins" /\ PluginsNext
    /\ UNCHANGED <<part, hubVars, refactorVars, officeVars,
                   commVars, loopVars, allVars>>

RefactorStep ==
    /\ part = "refactor" /\ RefactorNext
    /\ UNCHANGED <<part, hubVars, pluginVars, officeVars,
                   commVars, loopVars, allVars>>

LettersStep ==
    /\ part = "letters" /\ OfficeNext
    /\ UNCHANGED <<part, hubVars, pluginVars, refactorVars,
                   commVars, loopVars, allVars>>

InboxesStep ==
    /\ part = "inboxes" /\ CommNext
    /\ UNCHANGED <<part, hubVars, pluginVars, refactorVars,
                   officeVars, loopVars, allVars>>

ToolsStep ==
    /\ part = "tools" /\ LoopNext
    /\ UNCHANGED <<part, hubVars, pluginVars, refactorVars,
                   officeVars, commVars, allVars>>

WatchdogStep ==
    /\ part = "watchdog" /\ WNext
    /\ UNCHANGED <<part, hubVars, pluginVars, refactorVars,
                   officeVars, commVars, loopVars>>

ServicesSpec ==
    /\ ServicesInit
    /\ [][\/ HubStep \/ RingStep \/ PluginsStep \/ RefactorStep \/ LettersStep
          \/ InboxesStep \/ ToolsStep \/ WatchdogStep
         ]_<<part, hubVars, pluginVars, refactorVars, officeVars, commVars,
             loopVars, allVars>>
=============================================================================
