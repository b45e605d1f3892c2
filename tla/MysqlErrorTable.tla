-------------------------- MODULE MysqlErrorTable --------------------------
(***************************************************************************)
(* mysql::MySQLErrName (parser/mysql/errname.cc) and its error codes       *)
(* (parser/mysql/errcode.hh): the parser's own copy of the MySQL codes.    *)
(***************************************************************************)
EXTENDS ErrorMessages

\* The values of enum MYSQL_ERROR, block by block in the header.
codes_1000 == 1000..1144

codes_1145 == 1145..1290

codes_1291 == 1291..1436

codes_1437 == 1437..1582

codes_1583 == 1583..1728

codes_1729 == (1729..1863) \union (3102..3107) \union {1907, 3013, 3064, 3069}

codes_3108 ==
   (3108..3109) \union (3149..3150) \union (3162..3163) \union (3579..3599) \union (3751..3762)
    \union (3903..3904) \union (4135..4141) \union (8061..8065) \union {3140, 3143, 3146, 3152,
    3158, 3165, 3184, 3530, 3572, 3780, 3800, 3837, 3907, 3909, 4030, 4113, 4128}

MYSQL_ERROR ==
   codes_1000 \union codes_1145 \union codes_1291 \union codes_1437 \union
   codes_1583 \union codes_1729 \union codes_3108

\* The entries of MySQLErrName, block by block in listing order.
messages_1000 == Messages(
   <<1000..1118>>,
   <<0,0,0,0,3,2,2,1,1,2,2,3,0,3,2,2,3,3,3,3,1,3,1,3,3,4,3,1,0,2,1,1,1,1,1,1,1,1,0,3,0,0,0,0,3,
     3,0,0,1,1,1,1,2,0,2,3,1,0,0,1,1,1,2,1,2,0,1,1,0,1,1,1,1,1,2,0,4,1,2,1,3,0,1,0,0,1,1,4,2,0,
     0,1,3,1,1,1,0,1,1,1,1,1,1,1,0,0,1,1,1,2,1,0,1,0,1,1,1,0,1>>,
   NoneRedacted)

messages_1119 == Messages(
   <<1119..1226>>,
   <<2,0,1,1,2,0,1,3,1,1,1,1,0,0,0,3,1,1,1,0,1,0,2,4,5,0,0,2,3,0,0,1,0,4,0,0,0,0,0,0,0,0,0,0,0,
     0,1,1,1,0,1,1,0,0,0,0,0,2,0,1,0,1,1,1,1,5,0,0,1,1,0,0,0,0,1,1,1,0,0,0,0,0,0,0,1,0,0,0,0,0,
     0,1,2,0,0,0,0,0,0,1,1,2,2,0,0,0,1,3>>,
   NoneRedacted)

messages_1227 == Messages(
   <<1227..1337>>,
   <<1,1,1,1,2,1,1,1,1,2,0,2,2,0,1,0,3,0,0,3,2,0,1,3,0,0,2,0,0,1,0,0,0,1,1,1,2,2,2,2,5,0,0,7,1,
     1,1,0,2,7,0,0,0,1,1,2,1,1,0,1,2,2,2,1,3,2,0,1,0,3,3,1,2,2,2,4,1,2,2,2,2,2,1,1,1,1,0,1,0,0,
     0,4,1,1,1,0,0,1,0,0,1,0,0,1,1,1,1,2,0,1,0>>,
   NoneRedacted)

messages_1338 == Messages(
   <<1338..1446>>,
   <<0,0,1,1,1,2,1,0,2,3,1,0,1,0,1,0,0,0,2,1,0,0,0,1,2,2,1,0,4,2,2,2,4,1,1,0,0,0,0,0,0,0,1,0,1,
     0,0,0,0,1,2,1,0,1,0,2,2,2,2,0,0,1,0,0,0,3,0,0,2,1,5,0,0,3,0,0,2,1,0,0,0,0,0,1,0,2,0,3,3,1,
     0,1,1,1,1,1,1,0,3,1,0,2,0,1,1,3,0,0,0>>,
   NoneRedacted)

messages_1447 == Messages(
   <<1447..1555>>,
   <<2,2,2,2,1,1,1,2,2,2,2,1,1,0,1,2,2,0,0,1,0,0,0,3,2,1,0,1,0,1,1,2,2,2,0,0,0,0,0,0,0,0,0,0,1,
     1,0,0,0,0,0,1,0,0,0,0,1,1,0,0,1,0,0,0,0,1,0,0,0,0,1,0,0,0,0,0,1,1,2,1,1,1,1,0,0,0,1,0,1,0,
     1,2,1,1,1,0,0,0,0,0,3,1,0,0,0,1,1,3,0>>,
   NoneRedacted)

messages_1556 == Messages(
   <<1556..1660>>,
   <<0,3,5,0,0,0,0,0,0,0,0,0,0,2,1,1,0,1,0,0,0,0,0,0,1,2,1,1,1,1,2,0,0,0,2,0,1,1,1,1,1,2,1,2,2,
     2,2,2,2,2,2,1,1,1,0,1,1,0,0,0,1,0,1,0,0,3,1,1,1,1,1,1,2,2,1,0,0,0,0,0,0,0,0,0,0,1,0,0,0,0,
     0,1,1,1,1,0,1,0,0,1,0,1,0,1,0>>,
   NoneRedacted)

messages_1661 == Messages(
   <<1661..1719>>,
   <<0,0,1,0,1,0,0,0,0,0,0,0,0,0,0,2,5,2,0,1,1,2,0,2,0,0,0,2,0,2,0,0,0,0,0,0,1,2,0,2,1,1,0,0,0,
     2,1,2,1,2,1,1,0,0,0,0,0,0,0>>,
   NoneRedacted)

messages_1720 == Messages(
   <<1720..1786>>,
   <<1,1,0,0,0,0,3,0,2,2,1,1,1,1,0,2,0,0,2,3,1,3,1,0,0,2,2,0,0,1,1,0,0,2,1,4,1,0,0,0,0,4,2,0,0,
     1,1,1,0,1,0,1,1,0,1,0,0,0,0,0,0,0,0,0,0,0,0>>,
   NoneRedacted)

messages_1787 == Messages(
   <<1787..1860>>,
   <<0,0,0,1,1,0,2,0,0,0,1,1,1,1,1,0,0,0,4,0,1,1,1,3,3,1,1,1,1,3,1,0,0,0,2,2,1,1,2,1,0,2,3,2,3,
     2,3,2,0,0,1,1,0,0,0,2,2,0,2,3,0,0,0,0,0,0,0,0,0,0,0,0,1,2>>,
   NoneRedacted)

messages_1861 == Messages(
   <<1861..1863, 3102..3109, {3013}, {3064}, {3069}, {3140}, {3143}, {3146}, 3149..3150, {3152},
    {3158}, 3162..3163, {3165}, {3184}, 3579..3599, {3530}, {1907}, {3572}, 3751..3762, {3780},
    {3800}, {3837}, 3903..3904, {3907}, {3909}, {4030}, {4113}, {4128}, 4135..4141, {8065},
    8061..8064>>,
   <<0,0,1,1,0,1,2,1,0,1,1,1,2,2,1,1,2,0,0,1,0,1,1,0,0,1,0,0,1,2,1,1,1,1,1,1,1,1,1,1,1,1,1,0,0,
     2,2,0,0,2,2,0,1,1,0,0,1,0,0,1,0,2,1,1,1,1,1,1,0,0,0,2,2,2,2,1,0,3,1,1,3,1,1>>,
   NoneRedacted)

\* A variant of MySQLErrName: one message lost its argument.
MySQLErrName_ArgumentLost ==
   messages_1000 \o messages_1119 \o messages_1227 \o messages_1338 \o
   messages_1447 \o messages_1556 \o messages_1661 \o messages_1720 \o
   messages_1787 \o [messages_1861 EXCEPT ![4][2].args = 0]

MySQLErrName ==
   messages_1000 \o messages_1119 \o messages_1227 \o messages_1338 \o
   messages_1447 \o messages_1556 \o messages_1661 \o messages_1720 \o
   messages_1787 \o messages_1861
=============================================================================
