-------------------------------- MODULE MCApp --------------------------------
(* The files and the budgets of the model-checked instance of App.         *)
EXTENDS App, ImportDoc

Node(file, ref, kind, kids) == [file |-> file, ref |-> ref, kind |-> kind, kids |-> kids]
Kid(key, node) == [key |-> key, node |-> node]

(* Node 1 holds 2; node 3 may hold 5, under the same key or another one,   *)
(* or be an array; node 4 is in a file of its own and may be a plain value. *)
OpenApiFiles ==
    {[kind |-> "openapi", files |-> files, operations |-> <<<<"a", "b">>, <<>>>>,
      nodes |-> <<Node("main", r1, "object", <<Kid("a", 2)>>), Node("main", r2, "object", <<>>),
                  Node("main", r3, IF r3 = NoRef THEN kind3 ELSE "object", kids3),
                  Node("other", r4, IF r4 = NoRef THEN kind4 ELSE "object", <<>>),
                  Node("main", r5, "object", <<>>)>>] :
        files \in {{"main"}, {"main", "other"}}, r1 \in {NoRef, 3}, r2 \in {NoRef, 1, 3, 4},
        r3 \in {NoRef, 1, 2, 4}, kids3 \in {<<>>, <<Kid("a", 5)>>, <<Kid("b", 5)>>},
        kind3 \in {"object", "array"}, r4 \in {NoRef, 3, 4, Missing}, kind4 \in {"object", "value"},
        r5 \in {NoRef, 1, 4}}

Leaf == [name |-> "r", request |-> TRUE, items |-> <<>>]
FolderOf(name, items) == [name |-> name, request |-> FALSE, items |-> items]
Lists == {<<>>, <<Leaf>>, <<Leaf, Leaf>>}
Nested == Lists \union {<<FolderOf("a", s), Leaf>> : s \in Lists} \union {<<Leaf, FolderOf("b", s)>> : s \in Lists}
PostmanFiles == {[kind |-> "postman", items |-> <<FolderOf("a", s), Leaf, FolderOf("b", t)>>] : s, t \in Nested}

MCFiles == OpenApiFiles \union PostmanFiles
             \union {[kind |-> "har", entries |-> <<"a", NoPage>>], [kind |-> "other"],
                     [kind |-> "apivoy", paths |-> <<<<"a", "b">>, <<"a", "b">>>>]}

MCPages == {[window |-> w, key |-> k, number |-> n] : w \in {"w1", "w2"}, k \in {"collaborationUrl", "aiModel"}, n \in {1}}
             \union {[window |-> "w1", key |-> "gatewayUrl", number |-> n] : n \in 1..2}

(* Parts that meet, together.                                              *)
PartNames == {"tree", "import", "history", "send", "session", "environment", "shell", "team", "agent",
              "preferences"}
Budget(some) == [p \in PartNames |-> IF p \in DOMAIN some THEN some[p] ELSE 0]
Scenario(front0, loaded, some) == [front |-> front0, loaded |-> loaded, steps |-> Budget(some)]

MCScenarios ==
    {Scenario("web", FALSE, [tree |-> 2]), Scenario("desktop", FALSE, [tree |-> 2]),
     Scenario("web", TRUE, [history |-> 4, shell |-> 2]),
     Scenario("web", TRUE, [history |-> 2, shell |-> 1, tree |-> 1]),
     Scenario("desktop", TRUE, [send |-> 4]),
     Scenario("web", TRUE, [session |-> 3, shell |-> 2]),
     Scenario("web", TRUE, [environment |-> 3, shell |-> 3]),
     Scenario("desktop", TRUE, [environment |-> 4, shell |-> 1]),
     Scenario("web", TRUE, [shell |-> 5]),
     Scenario("web", TRUE, [team |-> 4]), Scenario("web", TRUE, [agent |-> 4]),
     Scenario("web", TRUE, [preferences |-> 5]), Scenario("web", TRUE, [tree |-> 1, import |-> 1]),
     Scenario("web", TRUE, [history |-> 5, shell |-> 1]), Scenario("desktop", TRUE, [history |-> 6, shell |-> 1])}
===============================================================================
