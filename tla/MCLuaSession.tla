---------------------------- MODULE MCLuaSession ----------------------------
(***************************************************************************)
(* Instances of LuaSession for TLC: two threads, and as many clients as    *)
(* can be referred to at once, and one more.                               *)
(***************************************************************************)
EXTENDS LuaSession
=============================================================================
