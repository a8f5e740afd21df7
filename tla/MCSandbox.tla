----------------------------- MODULE MCSandbox -----------------------------
(* Small instances of Sandbox for TLC. *)
EXTENDS Sandbox, TLC

CONSTANTS sys, a, b, c, broken, plain, bad, gen, coro, coro2

MCDeps == (plain :> {a}) @@ (bad :> {c, broken}) @@ (gen :> {b}) @@ (coro :> {a, sys}) @@ (coro2 :> {c})
MCLazy == (plain :> {c}) @@ (bad :> {}) @@ (gen :> {c}) @@ (coro :> {b}) @@ (coro2 :> {a})
=============================================================================
