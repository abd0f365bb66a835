------------------------------- MODULE MCConsole -------------------------------
(***************************************************************************)
(* Instances of Console for TLC.  An operator who is allowed on both ways, *)
(* a second one of the dashboard, and somebody who is not of them.         *)
(***************************************************************************)
EXTENDS Console

CONSTANTS h1, h2, ann, bob, eve

To(command, who) == [type |-> command, by |-> who, target |-> {}]

Closing(who, matches) == [type |-> "force_close", by |-> who, target |-> matches]

InChat(where, m) == [chat |-> where, type |-> m.type, by |-> m.by, target |-> m.target]

MCMessages ==
  {InChat("own", To(type, ann)) : type \in {"text", "kill", "enable_trading", "rescan"}}
    \union {InChat("own", To("resume", eve)), InChat("own", Closing(ann, {h1, h2})),
            InChat("foreign", To("resume", ann))}

MCWishes == {To("kill", ann), To("kill", bob), Closing(ann, {h1}), To("mode", eve), To("mode", ann)}
================================================================================
