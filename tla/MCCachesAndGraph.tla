-------------------------- MODULE MCCachesAndGraph --------------------------
(* One Go file in two versions, in which the calls go both ways and g moves; *)
(* a watcher and another indexer; three queries, room for two of them.      *)
EXTENDS CachesAndGraph, TLC

CONSTANTS w1, w2, q1, q2, q3
Decl(name) == [kind |-> "function", name |-> name, calls |-> {}]
Body(names) == [kind |-> "none", name |-> "none", calls |-> names]
MCText ==
  { <<Decl("f"), Body({"f"}), Decl("g"), Body({"f"})>>,
    <<Decl("f"), Body({}), Body({}), Decl("g")>> }
MCWorker == {w1, w2}
MCQuery == {q1, q2, q3}
MCAsksFor == q1 :> "f" @@ q2 :> "none" @@ q3 :> "none"
MCClose == [x \in MCQuery \X MCQuery |->
              IF x[1] = x[2] THEN 3 ELSE IF {x[1], x[2]} = {q1, q2} THEN 2 ELSE 0]
=============================================================================
