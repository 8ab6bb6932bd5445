---------- MODULE MCConnectionLifecycle ----------
(* One phone that reconnects, once with an old version; and a second phone. *)
EXTENDS ConnectionLifecycle

CONSTANTS phone, tablet, p1, p2, p3, t1

MCOnePhone  == {phone}
MCPhoneSockets == {p1, p2, p3}
MCPhoneOf == [s \in MCPhoneSockets |-> phone]
MCPhoneCompatible == {p1, p2}

MCTwoPhones == {phone, tablet}
MCTwoSockets == {p1, t1}
MCTwoOf == [s \in MCTwoSockets |-> IF s = p1 THEN phone ELSE tablet]
====================
