-------------------------- MODULE MCCodeGenerator --------------------------
(* CodeGenerator on a small first spec file, with a group in a group. *)
EXTENDS CodeGenerator

GroupsThenValues ==
  <<Group("a", <<ValueNode("a"), Group("b", <<ValueNode("b")>>)>>),
    ValueNode("b"), ValueNode("d")>>
=============================================================================
