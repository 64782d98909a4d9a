------------------------------ MODULE MCDaemonPad ------------------------------
(* DaemonPad on a small instance. *)
EXTENDS DaemonPad, TLC

Left == {"left"}
X == {"x"}

KeyboardsAlike == Permutations(Keyboards)
=============================================================================
