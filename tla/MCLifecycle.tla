----------------------------- MODULE MCLifecycle -----------------------------
(* Two embedders of different providers: the default one, and one whose    *)
(* vectors are longer than dimensions() says.  Where its probe fails the   *)
(* two have the same length.                                               *)
EXTENDS Lifecycle, TLC

CONSTANTS onnx, ollama, cli, server, c1

MCKind ==
  (onnx :> [provider |-> "onnx", declared |-> 1, real |-> 1])
  @@ (ollama :> [provider |-> "ollama", declared |-> 1, real |-> 2])

MayAll == (cli :> {"init", "index", "full"}) @@ (server :> {"serve", "reindex", "clear"})
MayFull == (cli :> {"init", "index", "full"}) @@ (server :> {})

Edits == {"edit"}
=============================================================================
