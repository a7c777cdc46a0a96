------------------------- MODULE MCPushoverControl -------------------------
(* PushoverControl for TLC: every control, target and phase, with three     *)
(* attempts at a step and three times the steps that the limit needs.       *)
EXTENDS PushoverControl

MCTargets == {<<None, None>>, <<3, None>>, <<None, 3>>, <<4, 3>>}
MCOptions ==
  {o \in [control : {"Phased", "LoadOnly"}, disp : {None, 3, 4}, angle : {None, 3},
          longTerm : BOOLEAN, arc : BOOLEAN, roofDof : BOOLEAN, adaptive : BOOLEAN] :
     /\ <<o.disp, o.angle>> \in MCTargets
     /\ o.adaptive => o.control = "Phased" /\ o.roofDof /\ <<o.disp, o.angle>> # <<None, None>>}
============================================================================
