------------------------------- MODULE MCApp -------------------------------
(* Short scripts that hold every step a scenario file may: they stand for  *)
(* the captures, the walks and the settles of the files in scenarios/.     *)
EXTENDS App

Settle == [op |-> "settle", min |-> 2, timeout |-> 3]
Camera == [op |-> "camera"]
Shot == [op |-> Capture]
Fly == [op |-> "fly", frames |-> 1]
Wait == [op |-> "wait", frames |-> 1]
Walk == [op |-> "walk", frames |-> 2]
OnFoot == [op |-> "set", movement |-> "walk"]
Plain(op) == [op |-> op]

MCScripts ==
  {<<Walk>>,
   <<OnFoot, Camera, Settle, Walk, Shot>>,
   <<Plain("freeze"), Fly, Plain("spawn"), Settle, Plain("thaw"), Settle, Wait, Plain("interactive")>>}
=============================================================================
