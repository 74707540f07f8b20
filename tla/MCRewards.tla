----------------------------- MODULE MCRewards -----------------------------
(* Instances of Rewards for TLC. *)
EXTENDS Rewards

CONSTANTS
  m1, m2, fm, sm,  \* a mail with attachments, one without, a stranger's, one to all
  p1, g1, g2, g3, g4, g5,  \* a present; a limited good with two prices, a
                           \* head frame; of activities: a head frame, a
                           \* good free of charge, and one without an item
  sign, vip, gold, ticket

MCAttach == [m \in {m1, m2, fm, sm} |-> IF m = m2 THEN 0 ELSE 1]
MCGoods == {g1, g2, g3, g4, g5}
MCLimit == [g \in MCGoods |-> IF g = g1 THEN 2 ELSE 0]
MCFrame == [g \in MCGoods |-> g \in {g2, g3}]
MCActivity == [g \in MCGoods |-> g \in {g3, g4, g5}]
MCFilled == [g \in MCGoods |-> g # g5]
MCPrice == [g \in MCGoods |->
  IF g = g1 THEN <<[cur |-> gold, num |-> 1], [cur |-> ticket, num |-> 1]>>
  ELSE IF g = g4 THEN <<>>
  ELSE <<[cur |-> gold, num |-> 2]>>]
(* A ticket becomes gold, in two parts. *)
MCYield == [c \in {gold, ticket} |->
  IF c = ticket THEN <<[cur |-> gold, num |-> 1], [cur |-> gold, num |-> 2]>>
                ELSE <<[cur |-> ticket, num |-> 1]>>]
MCBal == [c \in {gold, ticket} |-> 3]

(* Sunday, signed on six days of the week and nine in a row, with one      *)
(* serial prize left.                                                      *)
MCSign == [there |-> TRUE, days |-> 6, serial |-> 9, taken |-> {1, 2}, last |-> 12]

Ask(op, at, n) == [op |-> op, at |-> at, n |-> n]

MailRequests ==
  {Ask(op, m, 0) : op \in {"detail", "delete", "attach"}, m \in {m1, sm}} \cup
  {Ask("detail", m2, 0), Ask("delete", m2, 0), Ask("attach", fm, 0),
   Ask("deleteAll", m1, 0), Ask("arrive", m1, 0)}
PrizeRequests ==
  {Ask("sign", sign, t) : t \in {0, 3}} \cup
  {Ask("signList", sign, 0), Ask("vip", vip, 0), Ask("present", p1, 0)}
BuyRequests == {Ask("buy", g1, 1), Ask("buy", g1, 2), Ask("buy", g2, 1),
                Ask("buy", g3, 1), Ask("buy", g4, 1), Ask("buy", g5, 1)}
ItemRequests == {Ask("use", ticket, 2), Ask("send", gold, 2), Ask("sendPwd", gold, 1)}
AllRequests == MailRequests \cup PrizeRequests \cup BuyRequests \cup ItemRequests
=============================================================================
