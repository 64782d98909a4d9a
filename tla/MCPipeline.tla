------------------------------ MODULE MCPipeline ------------------------------
(* Pipeline on small instances. *)
EXTENDS Pipeline

CONSTANTS kbd, mouse, pad

Three == {kbd, mouse, pad}
Kinds ==
  [d \in Three |-> [is_keyboard |-> d = kbd, is_pointer |-> d # kbd,
                   is_absolute |-> d = pad]]
Pad == {pad}
Bounds == [d \in Three |-> IF d = kbd THEN 1 ELSE 2]
Some == {<<"tap_enabled", FALSE>>, <<"natural_scroll", FALSE>>,
         <<"dwt_enabled", FALSE>>, <<"accel_speed", 2>>}
=============================================================================
