---------------------------- MODULE MCBotRuntime ----------------------------
(* A flow with every kind of step, a cycle of steps that do not block and  *)
(* a way back to the first question.                                       *)
EXTENDS BotRuntime, TLC

CONSTANTS hello, menu, look, fork, nap, human, close, draft, c1, c2

FlowSteps == {hello, menu, look, fork, nap, human, close, draft}

FlowKind ==
  hello :> "tell" @@ menu :> "ask" @@ look :> "function" @@ fork :> "branch" @@
  nap :> "delay" @@ human :> "handoff" @@ close :> "resolve" @@ draft :> "draft"

FlowNexts ==
  hello :> {menu} @@ menu :> {look, nap, human} @@ look :> {fork, End} @@
  fork :> {look, hello, close, draft} @@ nap :> {menu, hello, End} @@
  human :> {} @@ close :> {} @@ draft :> {}

TwoCalls == {c1, c2}
=============================================================================
