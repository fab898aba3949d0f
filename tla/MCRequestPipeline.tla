-------------------------- MODULE MCRequestPipeline --------------------------
(***************************************************************************)
(* TLC instances of RequestPipeline: three requests over a pool of two.    *)
(***************************************************************************)
EXTENDS RequestPipeline, TLC

CONSTANTS r1, r2, r3

Ask(o, t, f) == [op |-> o, to |-> t, flaws |-> f]

PatchTo(t) == Ask("patch", t, {})
Delete     == Ask("delete", "pending", {})

\* Two PATCHes and a DELETE, two DELETEs, and what may stand in their way.
SomeKinds ==
  (r1 :> {PatchTo(t) : t \in {"running", "failed"}}) @@
  (r2 :> {PatchTo("dead"), PatchTo("failed"), Delete}) @@
  (r3 :> {Delete, Ask("get", "pending", {}), Ask("health", "pending", {}),
          Ask("live", "pending", {}),
          Ask("patch", "dead", {"no_key", "invalid"}),
          Ask("patch", "dead", {"oversized", "no_key"})})

\* One request, for the documentation's sentence about the log.
OnePatch == [r \in {r1} |-> {PatchTo("running")}]
==============================================================================
