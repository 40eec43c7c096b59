---------------------------- MODULE MCUdsDispatch ----------------------------
(* An ECU with an open DID, one behind level 2 in the extended session, and *)
(* a routine behind level 1.  It is checked with two testers that no plugin *)
(* sees, and with one tester whose requests two plugins contend for.        *)
EXTENDS UdsDispatch, TLC

CONSTANTS open, locked, routine

MCSecurity == (open :> 0) @@ (locked :> 2) @@ (routine :> 1)
MCAllowed == (open :> Sessions) @@ (locked :> Sessions \ {Default})
             @@ (routine :> Sessions)

\* The YAML entry of "late" moves it before "early", which is loaded first.
MCPlugins ==
    [early |-> [class |-> 100, spec |-> None, load |-> 0, rank |-> 1],
     late  |-> [class |-> 100, spec |-> 50, load |-> 1, rank |-> 2]]

Hook(plugin, kind, key, priority, place) ==
    [plugin |-> plugin, kind |-> kind, key |-> key, control |-> None,
     priority |-> priority, place |-> place]

Request(sid, ids) == [sid |-> sid, ids |-> ids, control |-> None]
Control(control) ==
    [sid |-> "routine", ids |-> <<routine>>, control |-> control]

Observer == Hook("early", "observer", None, None, 1)

\* Services, read identifiers and routines that several hooks claim.
Contended ==
    {[hooks |-> {Observer, Hook("early", "service", "write", None, 2),
                 Hook("late", "service", "write", 200, 1),
                 Hook("late", "service", None, None, 2)},
      requests |-> {Request("write", <<open>>), Request("other", <<>>)}],
     [hooks |-> {Observer, Hook("early", "read", open, None, 2),
                 Hook("late", "read", open, None, 1),
                 Hook("early", "read", locked, None, 3)},
      requests |-> {Request("read", <<open, locked>>)}],
     [hooks |-> {Hook("early", "routine", routine, None, 1),
                 Hook("early", "routine", routine, None, 2),
                 [Hook("early", "routine", routine, None, 3)
                     EXCEPT !.control = "start"]},
      requests |-> {Control(c) : c \in {"start", "stop", "results"}}
                       \cup {Request("security", <<>>)}],
     [hooks |-> {Hook("early", "write", locked, None, 1),
                 Hook("late", "write", locked, None, 1)},
      requests |-> {Request("session", <<>>), Request("security", <<>>),
                    Request("write", <<locked>>)}]}

\* The fallback, the policy for errors, and whether SecurityAccess is enabled.
Policies ==
    {<<"nrc", "nrc", TRUE>>, <<"echo", "fallthrough", TRUE>>,
     <<"silent", "silent", FALSE>>}

MCSetups ==
    {[testers |-> Testers, hooks |-> {}, requests |-> {Request("unseen", <<>>)},
      unknown |-> "nrc", onError |-> "nrc", security |-> TRUE]}
    \cup {[testers |-> {t}, hooks |-> u.hooks, requests |-> u.requests,
           unknown |-> p[1], onError |-> p[2], security |-> p[3]] :
              t \in Testers, u \in Contended, p \in Policies}

Symmetry == Permutations(Testers)
=============================================================================
