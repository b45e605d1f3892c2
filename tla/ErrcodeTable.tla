---------------------------- MODULE ErrcodeTable ----------------------------
(***************************************************************************)
(* errcode::MySQLErrName (errcode/errname.cc) and the error codes it lists *)
(* (errcode/errcode.hh): the codes and messages of the whole server.       *)
(***************************************************************************)
EXTENDS ErrorMessages

\* The values of enum MYSQL_ERROR, block by block in the header.
codes_1000 == 1000..1144

codes_1145 ==
   (1145..1185) \union (1191..1197) \union (1203..1217) \union (1220..1235) \union (1238..1253)
    \union (1256..1273) \union (1275..1276) \union (1279..1308) \union {1187}

codes_1309 == 1309..1454

codes_1455 ==
   (1455..1534) \union (1537..1589) \union (1591..1592) \union (1598..1607) \union {1609}

codes_1611 ==
   (1611..1616) \union (1618..1622) \union (1625..1649) \union (1651..1669) \union (1675..1676)
    \union (1679..1702) \union (1705..1713) \union (1720..1721) \union (1724..1728) \union
    (1730..1752) \union (1754..1759) \union (1761..1762) \union (1764..1775) \union (1778..1779)
    \union (1781..1783) \union {1671}

codes_1784 ==
   (1784..1788) \union (1790..1793) \union (1795..1801) \union (1804..1805) \union (1807..1836)
    \union (1838..1857) \union (1859..1863) \union (3064..3066) \union (3102..3109) \union
    (3149..3150) \union (3158..3159) \union (3162..3163) \union (3522..3523) \union (3572..3577)
    \union (3579..3599) \union (3636..3637) \union (3751..3758) \union {1907, 3013, 3020, 3029,
    3069, 3126, 3128, 3140, 3143, 3146, 3152, 3165, 3184, 3505, 3530, 3619}

codes_3759 ==
   (3759..3762) \union (3903..3904) \union (4135..4141) \union (8001..8007) \union (8018..8034)
    \union (8036..8066) \union (8101..8136) \union (8200..8227) \union {3764, 3780, 3800, 3837,
    3907, 3909, 3929, 4030, 4113, 4128}

\* A variant of codes_8228: the last code was given no line.
codes_8228_OneShort == (8228..8241) \union (9001..9012)

codes_8228 == (8228..8241) \union (9001..9013)

MYSQL_ERROR ==
   codes_1000 \union codes_1145 \union codes_1309 \union codes_1455 \union
   codes_1611 \union codes_1784 \union codes_3759 \union codes_8228

\* The entries of MySQLErrName, block by block in listing order.
messages_1000 == Messages(
   <<1000..1117>>,
   <<0,0,0,0,3,2,2,1,1,2,2,3,0,3,2,2,3,3,3,3,1,3,1,3,3,4,3,1,0,2,1,1,1,1,1,1,1,1,0,3,0,0,0,0,3,
     3,0,0,1,1,1,1,2,0,2,3,1,0,0,1,1,1,2,1,2,0,1,1,0,1,1,1,1,1,2,0,4,1,2,1,3,0,1,0,0,1,1,4,2,0,
     0,1,3,1,1,1,0,1,1,1,1,1,1,1,0,0,1,1,1,2,1,0,1,0,1,1,1,0>>,
   (1062 :> {0}))

messages_1118 == Messages(
   <<1118..1185, {1187}, 1191..1197, 1203..1217, 1220..1224>>,
   <<1,2,0,1,1,2,0,1,3,1,1,1,1,0,0,0,3,1,1,1,0,1,0,2,4,5,0,0,2,3,0,0,1,0,4,0,0,0,0,0,0,0,0,0,0,
     0,0,1,1,1,0,1,1,0,0,0,0,0,2,0,1,0,1,1,1,1,5,0,1,0,0,1,1,1,0,0,1,0,0,0,0,0,0,1,2,0,0,0,0,0,
     0,2,2,0,0,0>>,
   NoneRedacted)

messages_1225 == Messages(
   <<1225..1235, 1238..1253, 1256..1273, 1275..1276, 1279..1341>>,
   <<1,3,1,1,1,1,2,1,1,1,1,2,2,0,1,0,3,0,0,3,2,0,1,3,0,0,2,1,0,0,0,1,1,1,2,2,2,2,5,0,0,7,1,1,1,
     2,7,0,1,1,2,1,1,0,1,2,2,2,1,3,2,0,1,0,3,3,1,2,2,2,4,1,2,2,2,2,2,1,1,1,1,0,1,0,0,0,4,1,1,1,
     0,0,1,0,0,1,0,0,1,1,1,1,2,0,1,0,0,0,1,1>>,
   (1260 :> {0}) @@ (1291 :> {1}) @@ (1292 :> {1}) @@ (1300 :> {1}))

messages_1342 == Messages(
   <<1342..1396, {3523}, 1397..1440>>,
   <<1,2,1,0,2,3,1,0,1,0,1,0,0,0,2,1,0,0,0,1,2,2,1,0,4,2,2,2,4,1,1,0,0,0,0,0,0,0,1,0,1,0,0,0,0,
     1,2,1,0,1,0,2,2,2,2,1,0,0,1,0,0,0,3,0,0,2,1,5,0,0,3,0,0,2,1,0,0,0,0,0,1,0,2,0,3,3,1,0,1,1,
     1,1,1,1,0,3,1,0,2,0>>,
   (1366 :> {0, 1}) @@ (1367 :> {1}))

messages_1441 == Messages(
   <<1441..1531>>,
   <<1,1,3,0,0,0,2,2,2,2,1,1,1,2,2,2,2,1,1,0,1,2,2,0,0,1,0,0,0,3,2,1,0,1,0,1,1,2,2,2,0,0,0,0,0,
     0,0,0,0,0,1,1,0,0,0,0,0,1,0,0,0,0,1,1,0,0,1,0,0,0,0,1,0,0,0,0,1,0,0,0,0,0,1,1,2,1,1,1,1,0,
     0>>,
   (1480 :> {1}) @@ (1504 :> {0}) @@ (1525 :> {1}) @@ (1526 :> {0}))

messages_1532 == Messages(
   <<1532..1534, 1537..1589, 1591..1592, 1598..1607, {1609}, 1611..1616, 1618..1622, 1625..1646>>,
   <<0,1,0,1,2,1,1,1,0,0,0,0,0,3,1,0,0,0,1,1,3,0,0,3,5,0,0,0,0,0,0,0,0,0,0,2,1,1,0,1,0,0,0,0,0,
     0,1,2,1,1,1,1,2,0,0,0,0,1,1,2,2,2,2,2,2,2,2,1,1,1,1,0,0,0,1,1,0,0,3,1,1,1,1,2,2,1,0,0,0,0,
     0,0,0,0,0,0,1,0,0,0,0,0>>,
   NoneRedacted)

messages_1647 == Messages(
   <<1647..1649, 1651..1669, {1671}, 1675..1676, 1679..1702, 1705..1713, 1720..1721, 1724..1728,
    1730..1737>>,
   <<1,1,1,0,1,0,0,1,0,1,0,1,0,0,0,1,0,1,0,0,0,0,0,0,2,0,1,1,2,0,2,0,0,0,2,0,2,0,0,0,0,0,0,1,2,
     0,2,1,1,0,2,1,2,1,2,1,1,0,1,1,0,0,3,0,2,1,1,1,1,0,2,0,0>>,
   (1690 :> {1}))

messages_1738 == Messages(
   <<1738..1752, 1754..1759, 1761..1762, 1764..1775, 1778..1779, 1781..1788, 1790..1793,
    1795..1801, 1804..1805, 1807..1814>>,
   <<2,3,1,3,1,0,0,2,2,0,0,1,1,0,0,1,4,1,0,0,0,4,2,0,1,1,1,0,1,0,1,1,0,1,0,0,0,0,0,0,0,0,0,0,0,
     1,1,0,2,0,0,1,1,1,1,1,0,4,1,1,1,3,3,1,1,1>>,
   NoneRedacted)

messages_1815 == Messages(
   <<1815..1836, 1838..1857, 1859..1863, {3102}, {3764}, 3103..3109, {3126}, {3128}, {3013},
    {3020}, {3029}, 3064..3066, {3069}, {3140}, {3143}, {3146}, 3149..3150, {3152}, 3158..3159,
    3162..3163, {3165}, {3184}, {3505}, {3522}, 3579..3581>>,
   <<1,3,1,0,0,0,2,2,1,1,2,1,0,2,3,2,3,2,3,2,0,0,1,0,0,0,2,2,0,2,3,0,0,0,0,0,0,0,0,0,0,0,1,2,0,
     0,1,1,1,0,1,2,1,0,1,1,1,2,1,0,1,2,3,2,2,1,1,2,0,0,1,0,0,1,1,0,0,1,0,1,0,0>>,
   (1863 :> {0}) @@ (3140 :> {0}))

messages_3582 == Messages(
   <<3582..3599, {3530}, {1907}, {3572}, {3637}, 3751..3762, {3780}, {3800}, {3837}, 3903..3904,
    {3907}, {3909}, {8231}, {3929}, {3619}, 3573..3577, {3636}, {4030}, {4113}, {4128},
    4135..4141, 8001..8003, 8006..8007, 8004..8005, 8101..8107, 8018..8022>>,
   <<1,2,1,1,1,1,1,1,1,1,1,1,1,1,1,0,0,2,2,0,0,1,2,2,0,1,1,0,0,1,0,0,1,0,2,1,1,1,1,1,1,1,1,1,1,
     1,1,1,1,1,0,0,0,2,2,2,2,1,0,3,4,1,0,1,0,1,1,1,1,2,2,1,3,4,1,1,3,0,1>>,
   (8022 :> {0}))

messages_8023 == Messages(
   <<8023..8034, 8036..8042, {8046}, 8043..8045, 8047..8048, {8203}, 8200..8202, 8204..8209,
    {8213}, {8212}, {8211}, {8210}, 8214..8215, 8049..8052, {8057}, 8053..8056, 8216..8223,
    {8235}, 8224..8226, 8058..8060, 8133..8134, {8065}, 8061..8064, 8227..8228, {8230},
    8108..8123, {8066}, {8229}, 8232..8233, 8124..8129, 8131..8132, {8234}, {8236}, {8130}>>,
   <<0,0,2,0,0,0,0,0,0,0,0,1,1,1,1,3,0,1,1,1,0,1,0,2,1,0,1,0,2,0,0,0,1,1,2,2,1,0,2,0,1,1,1,0,0,
     0,0,0,1,0,1,0,0,0,0,0,0,2,0,1,1,1,0,0,2,3,5,1,1,3,1,1,1,1,1,1,2,0,0,0,0,0,0,0,0,0,0,0,1,0,
     2,1,0,0,0,1,1,1,1,1,0,1,1,2,1,0>>,
   (8034 :> {0}) @@ (8036 :> {0}) @@ (8039 :> {2}) @@ (8041 :> {0}) @@ (8223 :> {0, 1}) @@ (8133
    :> {0, 1, 2}) @@ (8134 :> {1, 2, 3, 4}))

\* A variant of messages_8135: the redacted argument of 9007 is counted from one.
messages_8135_FromOne == Messages(
   <<8135..8136, 8237..8241, 9001..9003, 9012..9013, 9004..9011>>,
   <<1,2,2,1,1,1,1,0,0,0,0,0,0,0,2,4,1,0,0,0>>,
   (9007 :> {4}))

messages_8135 == Messages(
   <<8135..8136, 8237..8241, 9001..9003, 9012..9013, 9004..9011>>,
   <<1,2,2,1,1,1,1,0,0,0,0,0,0,0,2,4,1,0,0,0>>,
   (9007 :> {3}))

MySQLErrName ==
   messages_1000 \o messages_1118 \o messages_1225 \o messages_1342 \o
   messages_1441 \o messages_1532 \o messages_1647 \o messages_1738 \o
   messages_1815 \o messages_3582 \o messages_8023 \o messages_8135
=============================================================================
