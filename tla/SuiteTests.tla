----------------------------- MODULE SuiteTests -----------------------------
(***************************************************************************)
(* The conformance suite's test data (src/fastvm/tests/main.cpp): for     *)
(* each TEST, the bytecode and input setup_message hands the engine, the  *)
(* gas budget, whether the message is static, whether the test ends with  *)
(* release_result, and what its ASSERTs expect of the result and of the   *)
(* mock's globals. Expected gas is the test's own arithmetic over the     *)
(* file's gas constants; an int32_t local initialised from a fraction is  *)
(* truncated toward zero, as C does. Assertions on output bytes, on log   *)
(* topics and data bytes and on the call input's bytes are not modelled.  *)
(***************************************************************************)
EXTENDS Integers, Sequences

\* The gas constants the tests compute their expectations from.
zero == 0
base == 1
verylow == 1
low == 1
mid == 1
high == 1
extcode == 1000
gbalance == 1000
sload == 1000
jumpdest == 1
sset == 20000
sreset == 8000
suicide == 5000
create == 200000
gcall == 1000
callvalue == 15000
callstipend == 2300
newaccount == 25000
exp == 1
expbyte == 1
glog == 500
logdata == 20
logtopic == 500
sha3 == 30
sha3word == 6
gcopy == 3
blockhash == 20

\* The value setup_message puts in the message by default.
value == <<0, 0, 0, 0, 0, 0, 0, 0, 0, 0, 0, \h01, 0, 0, 0, 0>>

\* testSTOP, lines 371-385.
testSTOP ==
    LET gas == 20000
    IN  [code |-> <<\h60, \h00, \h00, \h60, \h00>>,
         input |-> <<>>, gas |-> gas,
         static |-> FALSE, releases |-> TRUE,
         expect |-> [gasLeft |-> gas - verylow]]

\* testSTOPCREATE, lines 387-409.
testSTOPCREATE ==
    LET gas == 20000
    IN  [code |-> <<\h60, \h00, \h60, \h10, \h60, \he0, \h60, \h05, \h00, \hf0, \h60, \h00>>,
         input |-> <<>>, gas |-> gas,
         static |-> FALSE, releases |-> TRUE,
         expect |-> [gasLeft |-> gas - (verylow * 4 + zero)]]

\* testSTOPCALL, lines 411-438.
testSTOPCALL ==
    LET gas == 20000
    IN  [code |-> <<\h60, \h00, \h60, \hf0, \h60, \h10, \h60, \he0, \h60, \h05, \h6f, \h11, \h22, \h33, \h44, \h55, \h66, \h77,
                    \h88, \h11, \h22, \h33, \h44, \h55, \h66, \h77, \h88, \h00, \h6f, \h00, \h00, \h00, \h00, \h00, \h00, \h00,
                    \h00, \h00, \h00, \h00, \h00, \h11, \h22, \h33, \h44, \h61, \h13, \h88, \hf1, \h60, \h00>>,
         input |-> <<>>, gas |-> gas,
         static |-> FALSE, releases |-> TRUE,
         expect |-> [gasLeft |-> gas - (verylow * 6 + zero)]]

\* testADD, lines 440-468.
testADD ==
    LET gas == 20000
        words == (\he0 + 16 + 31) \div 32
        mstore_size == words * 1 + (words * words) \div 512 + 1
    IN  [code |-> <<\h6f, \hff, \hff, \hff, \hff, \hff, \hff, \hff, \hff, \hff, \hff, \hff, \hff, \hff, \hff, \hff, \hff, \h60,
                    \h02, \h01, \h60, \he0, \h52, \h60, \h10, \h60, \he0, \hf3>>,
         input |-> <<>>, gas |-> gas,
         static |-> FALSE, releases |-> TRUE,
         expect |-> [gasLeft |-> gas - (verylow * 6 + mstore_size)]]

\* testADD2, lines 470-495.
testADD2 ==
    LET gas == 20000
        words == (\he0 + 16 + 31) \div 32
        mstore_size == words * 1 + (words * words) \div 512 + 1
    IN  [code |-> <<\h60, \h02, \h60, \h04, \h01, \h60, \he0, \h52, \h60, \h10, \h60, \he0, \hf3>>,
         input |-> <<>>, gas |-> gas,
         static |-> FALSE, releases |-> TRUE,
         expect |-> [gasLeft |-> gas - (verylow * 6 + mstore_size + zero)]]

\* testADDZERO, lines 497-522.
testADDZERO ==
    LET gas == 20000
        words == (\he0 + 16 + 31) \div 32
        mstore_size == words * 1 + (words * words) \div 512 + 1
    IN  [code |-> <<\h60, \h02, \h60, \h00, \h01, \h60, \he0, \h52, \h60, \h10, \h60, \he0, \hf3>>,
         input |-> <<>>, gas |-> gas,
         static |-> FALSE, releases |-> TRUE,
         expect |-> [gasLeft |-> gas - (verylow * 6 + mstore_size + zero)]]

\* testMUL, lines 524-551.
testMUL ==
    LET gas == 20000
        words == (\he0 + 16 + 31) \div 32
        mstore_size == words * 1 + (words * words) \div 512 + 1
    IN  [code |-> <<\h60, \h04, \h60, \h04, \h02, \h60, \he0, \h52, \h60, \h10, \h60, \he0, \hf3>>,
         input |-> <<>>, gas |-> gas,
         static |-> FALSE, releases |-> TRUE,
         expect |-> [gasLeft |-> gas - (verylow * 5 + low + mstore_size)]]

\* testMULZERO, lines 553-580.
testMULZERO ==
    LET gas == 20000
        words == (\he0 + 16 + 31) \div 32
        mstore_size == words * 1 + (words * words) \div 512 + 1
    IN  [code |-> <<\h60, \h04, \h60, \h00, \h02, \h60, \he0, \h52, \h60, \h10, \h60, \he0, \hf3>>,
         input |-> <<>>, gas |-> gas,
         static |-> FALSE, releases |-> TRUE,
         expect |-> [gasLeft |-> gas - (verylow * 5 + low + mstore_size)]]

\* testSUB, lines 582-605.
testSUB ==
    LET gas == 20000
        words == (\he0 + 16 + 31) \div 32
        mstore_size == words * 1 + (words * words) \div 512 + 1
    IN  [code |-> <<\h60, \h04, \h60, \h08, \h03, \h60, \he0, \h52, \h60, \h10, \h60, \he0, \hf3>>,
         input |-> <<>>, gas |-> gas,
         static |-> FALSE, releases |-> TRUE,
         expect |-> [gasLeft |-> gas - (verylow * 6 + mstore_size)]]

\* testSUBNEG, lines 607-631.
testSUBNEG ==
    LET gas == 20000
        words == (\he0 + 16 + 31) \div 32
        mstore_size == words * 1 + (words * words) \div 512 + 1
    IN  [code |-> <<\h60, \h08, \h60, \h04, \h03, \h60, \he0, \h52, \h60, \h10, \h60, \he0, \hf3>>,
         input |-> <<>>, gas |-> gas,
         static |-> FALSE, releases |-> TRUE,
         expect |-> [gasLeft |-> gas - (verylow * 6 + mstore_size)]]

\* testDIV, lines 633-656.
testDIV ==
    LET gas == 20000
        words == (\he0 + 16 + 31) \div 32
        mstore_size == words * 1 + (words * words) \div 512 + 1
    IN  [code |-> <<\h60, \h04, \h60, \h08, \h04, \h60, \he0, \h52, \h60, \h10, \h60, \he0, \hf3>>,
         input |-> <<>>, gas |-> gas,
         static |-> FALSE, releases |-> TRUE,
         expect |-> [gasLeft |-> gas - (verylow * 5 + low + mstore_size)]]

\* testDIVZERO, lines 658-681.
testDIVZERO ==
    LET gas == 20000
        words == (\he0 + 16 + 31) \div 32
        mstore_size == words * 1 + (words * words) \div 512 + 1
    IN  [code |-> <<\h60, \h00, \h60, \h08, \h04, \h60, \he0, \h52, \h60, \h10, \h60, \he0, \hf3>>,
         input |-> <<>>, gas |-> gas,
         static |-> FALSE, releases |-> TRUE,
         expect |-> [gasLeft |-> gas - (verylow * 5 + low + mstore_size)]]

\* testSDIV, lines 683-712.
testSDIV ==
    LET gas == 20000
        words == (\he0 + 16 + 31) \div 32
        mstore_size == words * 1 + (words * words) \div 512 + 1
    IN  [code |-> <<\h60, \h02, \h6f, \hff, \hff, \hff, \hff, \hff, \hff, \hff, \hff, \hff, \hff, \hff, \hff, \hff, \hff, \hff,
                    \hfc, \h05, \h60, \he0, \h52, \h60, \h10, \h60, \he0, \hf3>>,
         input |-> <<>>, gas |-> gas,
         static |-> FALSE, releases |-> TRUE,
         expect |-> [gasLeft |-> gas - (verylow * 6 + mstore_size)]]

\* testSDIVZERO, lines 714-742.
testSDIVZERO ==
    LET gas == 20000
        words == (\he0 + 16 + 31) \div 32
        mstore_size == words * 1 + (words * words) \div 512 + 1
    IN  [code |-> <<\h60, \h00, \h6f, \hff, \hff, \hff, \hff, \hff, \hff, \hff, \hff, \hff, \hff, \hff, \hff, \hff, \hff, \hff,
                    \hfc, \h05, \h60, \he0, \h52, \h60, \h10, \h60, \he0, \hf3>>,
         input |-> <<>>, gas |-> gas,
         static |-> FALSE, releases |-> TRUE,
         expect |-> [gasLeft |-> gas - (verylow * 6 + mstore_size)]]

\* testSDIVNEG, lines 744-769.
testSDIVNEG ==
    LET gas == 20000
        words == (\he0 + 16 + 31) \div 32
        mstore_size == words * 1 + (words * words) \div 512 + 1
    IN  [code |-> <<\h60, \h00, \h6f, \h08, \h00, \h00, \h00, \h00, \h00, \h00, \h00, \h00, \h00, \h00, \h00, \h00, \h00, \h00,
                    \h00, \h05, \h60, \he0, \h52, \h60, \h10, \h60, \he0, \hf3>>,
         input |-> <<>>, gas |-> gas,
         static |-> FALSE, releases |-> TRUE,
         expect |-> [gasLeft |-> gas - (verylow * 5 + low + mstore_size)]]

\* testMOD, lines 771-794.
testMOD ==
    LET gas == 20000
        words == (\he0 + 16 + 31) \div 32
        mstore_size == words * 1 + (words * words) \div 512 + 1
    IN  [code |-> <<\h60, \h03, \h60, \h08, \h06, \h60, \he0, \h52, \h60, \h10, \h60, \he0, \hf3>>,
         input |-> <<>>, gas |-> gas,
         static |-> FALSE, releases |-> TRUE,
         expect |-> [gasLeft |-> gas - (verylow * 5 + low + mstore_size)]]

\* testMODZERO, lines 796-819.
testMODZERO ==
    LET gas == 20000
        words == (\he0 + 16 + 31) \div 32
        mstore_size == words * 1 + (words * words) \div 512 + 1
    IN  [code |-> <<\h60, \h00, \h60, \h08, \h06, \h60, \he0, \h52, \h60, \h10, \h60, \he0, \hf3>>,
         input |-> <<>>, gas |-> gas,
         static |-> FALSE, releases |-> TRUE,
         expect |-> [gasLeft |-> gas - (verylow * 5 + low + mstore_size)]]

\* testSMOD, lines 821-846.
testSMOD ==
    LET gas == 20000
        words == (\he0 + 16 + 31) \div 32
        mstore_size == words * 1 + (words * words) \div 512 + 1
    IN  [code |-> <<\h60, \h03, \h6f, \hff, \hff, \hff, \hff, \hff, \hff, \hff, \hff, \hff, \hff, \hff, \hff, \hff, \hff, \hff,
                    \hf8, \h07, \h60, \he0, \h52, \h60, \h10, \h60, \he0, \hf3>>,
         input |-> <<>>, gas |-> gas,
         static |-> FALSE, releases |-> TRUE,
         expect |-> [gasLeft |-> gas - (verylow * 5 + low + mstore_size)]]

\* testSMODZERO, lines 848-872.
testSMODZERO ==
    LET gas == 20000
        words == (\he0 + 16 + 31) \div 32
        mstore_size == words * 1 + (words * words) \div 512 + 1
    IN  [code |-> <<\h60, \h00, \h6f, \hff, \hff, \hff, \hff, \hff, \hff, \hff, \hff, \hff, \hff, \hff, \hff, \hff, \hff, \hff,
                    \hf8, \h07, \h60, \he0, \h52, \h60, \h10, \h60, \he0, \hf3>>,
         input |-> <<>>, gas |-> gas,
         static |-> FALSE, releases |-> TRUE,
         expect |-> [gasLeft |-> gas - (verylow * 5 + low + mstore_size)]]

\* testADDMOD, lines 874-901.
testADDMOD ==
    LET gas == 20000
        words == (\he0 + 16 + 31) \div 32
        mstore_size == words * 1 + (words * words) \div 512 + 1
    IN  [code |-> <<\h60, \h03, \h60, \h04, \h60, \h04, \h08, \h60, \he0, \h52, \h60, \h10, \h60, \he0, \hf3>>,
         input |-> <<>>, gas |-> gas,
         static |-> FALSE, releases |-> TRUE,
         expect |-> [gasLeft |-> gas - (verylow * 6 + mid + mstore_size)]]

\* testADDMODZERO, lines 903-930.
testADDMODZERO ==
    LET gas == 20000
        words == (\he0 + 16 + 31) \div 32
        mstore_size == words * 1 + (words * words) \div 512 + 1
    IN  [code |-> <<\h60, \h00, \h60, \h04, \h60, \h04, \h08, \h60, \he0, \h52, \h60, \h10, \h60, \he0, \hf3>>,
         input |-> <<>>, gas |-> gas,
         static |-> FALSE, releases |-> TRUE,
         expect |-> [gasLeft |-> gas - (verylow * 6 + mid + mstore_size)]]

\* testADDMOD_fromCallData, lines 932-959.
testADDMOD_fromCallData ==
    LET gas == 20000
    IN  [code |-> <<\h60, \h20, \h35, \h60, \h10, \h35, \h60, \h00, \h35, \h08, \h60, \he0, \h52, \h60, \h10, \h60, \he0, \hf3>>,
         input |-> <<\h00, \h00, \h00, \h00, \h00, \h00, \h00, \h00, \h00, \h00, \h00, \h00, \h00, \h00, \h00, \h03, \h00, \h00,
                     \h00, \h00, \h00, \h00, \h00, \h00, \h00, \h00, \h00, \h00, \h00, \h00, \h00, \h04, \h00, \h00, \h00, \h00,
                     \h00, \h00, \h00, \h00, \h00, \h00, \h00, \h00, \h00, \h00, \h00, \h05>>, gas |-> gas,
         static |-> FALSE, releases |-> TRUE,
         expect |-> [none |-> TRUE]]

\* testMULMOD, lines 961-988.
testMULMOD ==
    LET gas == 20000
        words == (\he0 + 16 + 31) \div 32
        mstore_size == words * 1 + (words * words) \div 512 + 1
    IN  [code |-> <<\h60, \h03, \h60, \h04, \h60, \h04, \h09, \h60, \he0, \h52, \h60, \h10, \h60, \he0, \hf3>>,
         input |-> <<>>, gas |-> gas,
         static |-> FALSE, releases |-> TRUE,
         expect |-> [gasLeft |-> gas - (verylow * 6 + mid + mstore_size)]]

\* testMULMODZERO, lines 990-1017.
testMULMODZERO ==
    LET gas == 20000
        words == (\he0 + 16 + 31) \div 32
        mstore_size == words * 1 + (words * words) \div 512 + 1
    IN  [code |-> <<\h60, \h00, \h60, \h04, \h60, \h04, \h09, \h60, \he0, \h52, \h60, \h10, \h60, \he0, \hf3>>,
         input |-> <<>>, gas |-> gas,
         static |-> FALSE, releases |-> TRUE,
         expect |-> [gasLeft |-> gas - (verylow * 6 + mid + mstore_size)]]

\* testEXP, lines 1020-1048.
testEXP ==
    LET gas == 20000
        words == (\he0 + 16 + 31) \div 32
        mstore_size == words * 1 + (words * words) \div 512 + 1
        logexpval == 0
    IN  [code |-> <<\h60, \h03, \h60, \h04, \h0a, \h60, \he0, \h52, \h60, \h10, \h60, \he0, \hf3>>,
         input |-> <<>>, gas |-> gas,
         static |-> FALSE, releases |-> TRUE,
         expect |-> [gasLeft |-> gas - (verylow * 5 + exp + expbyte * (1 + logexpval) + mstore_size)]]

\* testEXPZERO, lines 1050-1076.
testEXPZERO ==
    LET gas == 20000
        words == (\he0 + 16 + 31) \div 32
        mstore_size == words * 1 + (words * words) \div 512 + 1
    IN  [code |-> <<\h60, \h00, \h60, \h04, \h0a, \h60, \he0, \h52, \h60, \h10, \h60, \he0, \hf3>>,
         input |-> <<>>, gas |-> gas,
         static |-> FALSE, releases |-> TRUE,
         expect |-> [gasLeft |-> gas - (verylow * 5 + exp + mstore_size)]]

\* testEXPZEROBASE, lines 1078-1105.
testEXPZEROBASE ==
    LET gas == 20000
        words == (\he0 + 16 + 31) \div 32
        mstore_size == words * 1 + (words * words) \div 512 + 1
        logexpval == 0
    IN  [code |-> <<\h60, \h03, \h60, \h00, \h0a, \h60, \he0, \h52, \h60, \h10, \h60, \he0, \hf3>>,
         input |-> <<>>, gas |-> gas,
         static |-> FALSE, releases |-> TRUE,
         expect |-> [gasLeft |-> gas - (verylow * 5 + exp + expbyte * (1 + logexpval) + mstore_size)]]

\* testSIGNEXTEND, lines 1107-1134.
testSIGNEXTEND ==
    LET gas == 20000
        words == (\he0 + 16 + 31) \div 32
        mstore_size == words * 1 + (words * words) \div 512 + 1
    IN  [code |-> <<\h61, \h80, \h00, \h60, \h01, \h0b, \h60, \he0, \h52, \h60, \h10, \h60, \he0, \hf3>>,
         input |-> <<>>, gas |-> gas,
         static |-> FALSE, releases |-> TRUE,
         expect |-> [gasLeft |-> gas - (verylow * 5 + low + mstore_size)]]

\* testSIGNEXTEND2, lines 1136-1164.
testSIGNEXTEND2 ==
    LET gas == 20000
        words == (\he0 + 16 + 31) \div 32
        mstore_size == words * 1 + (words * words) \div 512 + 1
    IN  [code |-> <<\h6f, \hff, \hff, \hff, \hff, \hff, \hff, \hff, \hff, \hff, \hff, \hff, \hff, \hff, \hff, \hff, \hff, \h60,
                    \h01, \h0b, \h60, \he0, \h52, \h60, \h10, \h60, \he0, \hf3>>,
         input |-> <<>>, gas |-> gas,
         static |-> FALSE, releases |-> TRUE,
         expect |-> [gasLeft |-> gas - (verylow * 5 + low + mstore_size)]]

\* testLT, lines 1170-1197.
testLT ==
    LET gas == 20000
        words == (\he0 + 16 + 31) \div 32
        mstore_size == words * 1 + (words * words) \div 512 + 1
    IN  [code |-> <<\h6f, \hff, \hff, \hff, \hff, \hff, \hff, \hff, \hff, \hff, \hff, \hff, \hff, \hff, \hff, \hff, \hff, \h60,
                    \h01, \h10, \h60, \he0, \h52, \h60, \h10, \h60, \he0, \hf3>>,
         input |-> <<>>, gas |-> gas,
         static |-> FALSE, releases |-> TRUE,
         expect |-> [gasLeft |-> gas - (verylow * 6 + mstore_size)]]

\* testLTFALSE, lines 1199-1226.
testLTFALSE ==
    LET gas == 20000
        words == (\he0 + 16 + 31) \div 32
        mstore_size == words * 1 + (words * words) \div 512 + 1
    IN  [code |-> <<\h60, \h01, \h6f, \hff, \hff, \hff, \hff, \hff, \hff, \hff, \hff, \hff, \hff, \hff, \hff, \hff, \hff, \hff,
                    \hff, \h10, \h60, \he0, \h52, \h60, \h10, \h60, \he0, \hf3>>,
         input |-> <<>>, gas |-> gas,
         static |-> FALSE, releases |-> TRUE,
         expect |-> [gasLeft |-> gas - (verylow * 6 + mstore_size)]]

\* testGT, lines 1228-1255.
testGT ==
    LET gas == 20000
        words == (\he0 + 16 + 31) \div 32
        mstore_size == words * 1 + (words * words) \div 512 + 1
    IN  [code |-> <<\h60, \h01, \h6f, \hff, \hff, \hff, \hff, \hff, \hff, \hff, \hff, \hff, \hff, \hff, \hff, \hff, \hff, \hff,
                    \hff, \h12, \h60, \he0, \h52, \h60, \h10, \h60, \he0, \hf3>>,
         input |-> <<>>, gas |-> gas,
         static |-> FALSE, releases |-> TRUE,
         expect |-> [gasLeft |-> gas - (verylow * 6 + mstore_size)]]

\* testGTFALSE, lines 1257-1284.
testGTFALSE ==
    LET gas == 20000
        words == (\he0 + 16 + 31) \div 32
        mstore_size == words * 1 + (words * words) \div 512 + 1
    IN  [code |-> <<\h6f, \hff, \hff, \hff, \hff, \hff, \hff, \hff, \hff, \hff, \hff, \hff, \hff, \hff, \hff, \hff, \hff, \h60,
                    \h01, \h12, \h60, \he0, \h52, \h60, \h10, \h60, \he0, \hf3>>,
         input |-> <<>>, gas |-> gas,
         static |-> FALSE, releases |-> TRUE,
         expect |-> [gasLeft |-> gas - (verylow * 6 + mstore_size)]]

\* testSLT, lines 1286-1310.
testSLT ==
    LET gas == 20000
        words == (\he0 + 16 + 31) \div 32
        mstore_size == words * 1 + (words * words) \div 512 + 1
    IN  [code |-> <<\h60, \h01, \h6f, \hff, \hff, \hff, \hff, \hff, \hff, \hff, \hff, \hff, \hff, \hff, \hff, \hff, \hff, \hff,
                    \hff, \h12, \h60, \he0, \h52, \h60, \h10, \h60, \he0, \hf3>>,
         input |-> <<>>, gas |-> gas,
         static |-> FALSE, releases |-> TRUE,
         expect |-> [gasLeft |-> gas - (verylow * 6 + mstore_size)]]

\* testSLTFALSE, lines 1312-1336.
testSLTFALSE ==
    LET gas == 20000
        words == (\he0 + 16 + 31) \div 32
        mstore_size == words * 1 + (words * words) \div 512 + 1
    IN  [code |-> <<\h6f, \hff, \hff, \hff, \hff, \hff, \hff, \hff, \hff, \hff, \hff, \hff, \hff, \hff, \hff, \hff, \hff, \h60,
                    \h01, \h12, \h60, \he0, \h52, \h60, \h10, \h60, \he0, \hf3>>,
         input |-> <<>>, gas |-> gas,
         static |-> FALSE, releases |-> TRUE,
         expect |-> [gasLeft |-> gas - (verylow * 6 + mstore_size)]]

\* testSGT, lines 1338-1362.
testSGT ==
    LET gas == 20000
        words == (\he0 + 16 + 31) \div 32
        mstore_size == words * 1 + (words * words) \div 512 + 1
    IN  [code |-> <<\h6f, \hff, \hff, \hff, \hff, \hff, \hff, \hff, \hff, \hff, \hff, \hff, \hff, \hff, \hff, \hff, \hff, \h60,
                    \h01, \h13, \h60, \he0, \h52, \h60, \h10, \h60, \he0, \hf3>>,
         input |-> <<>>, gas |-> gas,
         static |-> FALSE, releases |-> TRUE,
         expect |-> [gasLeft |-> gas - (verylow * 6 + mstore_size)]]

\* testSGTFALSE, lines 1364-1389.
testSGTFALSE ==
    LET gas == 20000
        words == (\he0 + 16 + 31) \div 32
        mstore_size == words * 1 + (words * words) \div 512 + 1
    IN  [code |-> <<\h60, \h01, \h6f, \hff, \hff, \hff, \hff, \hff, \hff, \hff, \hff, \hff, \hff, \hff, \hff, \hff, \hff, \hff,
                    \hff, \h13, \h60, \he0, \h52, \h60, \h10, \h60, \he0, \hf3>>,
         input |-> <<>>, gas |-> gas,
         static |-> FALSE, releases |-> TRUE,
         expect |-> [gasLeft |-> gas - (verylow * 6 + mstore_size)]]

\* testEQ, lines 1391-1416.
testEQ ==
    LET gas == 20000
        words == (\he0 + 16 + 31) \div 32
        mstore_size == words * 1 + (words * words) \div 512 + 1
    IN  [code |-> <<\h6f, \hff, \hff, \hff, \hff, \hff, \hff, \hff, \hff, \hff, \hff, \hff, \hff, \hff, \hff, \hff, \hff, \h6f,
                    \hff, \hff, \hff, \hff, \hff, \hff, \hff, \hff, \hff, \hff, \hff, \hff, \hff, \hff, \hff, \hff, \h14, \h60,
                    \he0, \h52, \h60, \h10, \h60, \he0, \hf3>>,
         input |-> <<>>, gas |-> gas,
         static |-> FALSE, releases |-> TRUE,
         expect |-> [gasLeft |-> gas - (verylow * 6 + mstore_size)]]

\* testNOTEQ, lines 1418-1442.
testNOTEQ ==
    LET gas == 20000
        words == (\he0 + 16 + 31) \div 32
        mstore_size == words * 1 + (words * words) \div 512 + 1
    IN  [code |-> <<\h6f, \hff, \hff, \hff, \hff, \hff, \hff, \hff, \hff, \hff, \hff, \hff, \hff, \hff, \hff, \hff, \hff, \h60,
                    \h01, \h14, \h60, \he0, \h52, \h60, \h10, \h60, \he0, \hf3>>,
         input |-> <<>>, gas |-> gas,
         static |-> FALSE, releases |-> TRUE,
         expect |-> [gasLeft |-> gas - (verylow * 6 + mstore_size)]]

\* testISZERO, lines 1444-1469.
testISZERO ==
    LET gas == 20000
        words == (\he0 + 16 + 31) \div 32
        mstore_size == words * 1 + (words * words) \div 512 + 1
    IN  [code |-> <<\h60, \h00, \h15, \h60, \he0, \h52, \h60, \h10, \h60, \he0, \hf3>>,
         input |-> <<>>, gas |-> gas,
         static |-> FALSE, releases |-> TRUE,
         expect |-> [gasLeft |-> gas - (verylow * 5 + mstore_size)]]

\* testNOTISZERO, lines 1471-1496.
testNOTISZERO ==
    LET gas == 20000
        words == (\he0 + 16 + 31) \div 32
        mstore_size == words * 1 + (words * words) \div 512 + 1
    IN  [code |-> <<\h60, \h01, \h15, \h60, \he0, \h52, \h60, \h10, \h60, \he0, \hf3>>,
         input |-> <<>>, gas |-> gas,
         static |-> FALSE, releases |-> TRUE,
         expect |-> [gasLeft |-> gas - (verylow * 5 + mstore_size)]]

\* testAND, lines 1498-1521.
testAND ==
    LET gas == 20000
        words == (\he0 + 16 + 31) \div 32
        mstore_size == words * 1 + (words * words) \div 512 + 1
    IN  [code |-> <<\h60, \h55, \h60, \haa, \h16, \h60, \he0, \h52, \h60, \h10, \h60, \he0, \hf3>>,
         input |-> <<>>, gas |-> gas,
         static |-> FALSE, releases |-> TRUE,
         expect |-> [gasLeft |-> gas - (verylow * 6 + mstore_size)]]

\* testANDMAX, lines 1523-1547.
testANDMAX ==
    LET gas == 20000
        words == (\he0 + 16 + 31) \div 32
        mstore_size == words * 1 + (words * words) \div 512 + 1
    IN  [code |-> <<\h6f, \hff, \hff, \hff, \hff, \hff, \hff, \hff, \hff, \hff, \hff, \hff, \hff, \hff, \hff, \hff, \hff, \h60,
                    \haa, \h16, \h60, \he0, \h52, \h60, \h10, \h60, \he0, \hf3>>,
         input |-> <<>>, gas |-> gas,
         static |-> FALSE, releases |-> TRUE,
         expect |-> [gasLeft |-> gas - (verylow * 6 + mstore_size)]]

\* testOR, lines 1549-1572.
testOR ==
    LET gas == 20000
        words == (\he0 + 16 + 31) \div 32
        mstore_size == words * 1 + (words * words) \div 512 + 1
    IN  [code |-> <<\h60, \h55, \h60, \haa, \h17, \h60, \he0, \h52, \h60, \h10, \h60, \he0, \hf3>>,
         input |-> <<>>, gas |-> gas,
         static |-> FALSE, releases |-> TRUE,
         expect |-> [gasLeft |-> gas - (verylow * 6 + mstore_size)]]

\* testORMAX, lines 1574-1599.
testORMAX ==
    LET gas == 20000
        words == (\he0 + 16 + 31) \div 32
        mstore_size == words * 1 + (words * words) \div 512 + 1
    IN  [code |-> <<\h60, \h55, \h6f, \hff, \hff, \hff, \hff, \hff, \hff, \hff, \hff, \hff, \hff, \hff, \hff, \hff, \hff, \hff,
                    \hff, \h17, \h60, \he0, \h52, \h60, \h10, \h60, \he0, \hf3>>,
         input |-> <<>>, gas |-> gas,
         static |-> FALSE, releases |-> TRUE,
         expect |-> [gasLeft |-> gas - (verylow * 6 + mstore_size)]]

\* testXOR, lines 1601-1624.
testXOR ==
    LET gas == 20000
        words == (\he0 + 16 + 31) \div 32
        mstore_size == words * 1 + (words * words) \div 512 + 1
    IN  [code |-> <<\h60, \h55, \h60, \haa, \h18, \h60, \he0, \h52, \h60, \h10, \h60, \he0, \hf3>>,
         input |-> <<>>, gas |-> gas,
         static |-> FALSE, releases |-> TRUE,
         expect |-> [gasLeft |-> gas - (verylow * 6 + mstore_size)]]

\* testXORMAX, lines 1626-1651.
testXORMAX ==
    LET gas == 200000
        words == (\he0 + 16 + 31) \div 32
        mstore_size == words * 1 + (words * words) \div 512 + 1
    IN  [code |-> <<\h6f, \hff, \hff, \hff, \hff, \hff, \hff, \hff, \hff, \hff, \hff, \hff, \hff, \hff, \hff, \hff, \hff, \h60,
                    \haa, \h18, \h60, \he0, \h52, \h60, \h10, \h60, \he0, \hf3>>,
         input |-> <<>>, gas |-> gas,
         static |-> FALSE, releases |-> TRUE,
         expect |-> [gasLeft |-> gas - (verylow * 6 + mstore_size)]]

\* testNOT, lines 1653-1675.
testNOT ==
    LET gas == 20000
        words == (\he0 + 16 + 31) \div 32
        mstore_size == words * 1 + (words * words) \div 512 + 1
    IN  [code |-> <<\h60, \h55, \h19, \h60, \he0, \h52, \h60, \h10, \h60, \he0, \hf3>>,
         input |-> <<>>, gas |-> gas,
         static |-> FALSE, releases |-> TRUE,
         expect |-> [gasLeft |-> gas - (verylow * 5 + mstore_size)]]

\* testBYTE, lines 1677-1701.
testBYTE ==
    LET gas == 20000
        words == (\he0 + 16 + 31) \div 32
        mstore_size == words * 1 + (words * words) \div 512 + 1
    IN  [code |-> <<\h6f, \h11, \h22, \h33, \h44, \h55, \h66, \h77, \h88, \h11, \h22, \h33, \h44, \h55, \h66, \h77, \h88, \h60,
                    \h02, \h1a, \h60, \he0, \h52, \h60, \h10, \h60, \he0, \hf3>>,
         input |-> <<>>, gas |-> gas,
         static |-> FALSE, releases |-> TRUE,
         expect |-> [gasLeft |-> gas - (verylow * 6 + mstore_size)]]

\* testSHA3, lines 1707-1747.
testSHA3 ==
    LET gas == 20000
        words == (\he0 + 16 + 31) \div 32
        mstore_size == words * 1 + (words * words) \div 512 + 1
        extra_mstore == 1
    IN  [code |-> <<\h6f, \h11, \h22, \h33, \h44, \h55, \h66, \h77, \h88, \h11, \h22, \h33, \h44, \h55, \h66, \h77, \h88, \h60,
                    \he0, \h52, \h6f, \h11, \h22, \h33, \h44, \h55, \h66, \h77, \h88, \h11, \h22, \h33, \h44, \h55, \h66, \h77,
                    \h88, \h60, \hf0, \h52, \h60, \h20, \h60, \he0, \h20, \h60, \he0, \h52, \h60, \hf0, \h52, \h60, \h20, \h60,
                    \he0, \hf3>>,
         input |-> <<>>, gas |-> gas,
         static |-> FALSE, releases |-> TRUE,
         expect |-> [gasLeft |-> gas - (verylow * 10 + mstore_size + extra_mstore * 3 + sha3 + sha3word * 1)]]

\* testADDRESS, lines 1753-1780.
testADDRESS ==
    LET gas == 20000
        words == (\he0 + 16 + 31) \div 32
        mstore_size == words * 1 + (words * words) \div 512 + 1
        extra_mstore == 1
    IN  [code |-> <<\h30, \h60, \he0, \h52, \h60, \hf0, \h52, \h60, \h20, \h60, \he0, \hf3>>,
         input |-> <<>>, gas |-> gas,
         static |-> FALSE, releases |-> TRUE,
         expect |-> [gasLeft |-> gas - (base + verylow * 4 + mstore_size + extra_mstore * 1)]]

\* testBALANCE, lines 1782-1811.
testBALANCE ==
    LET gas == 20000
        words == (\he0 + 16 + 31) \div 32
        mstore_size == words * 1 + (words * words) \div 512 + 1
    IN  [code |-> <<\h6f, \h0f, \h10, \h11, \h12, \h13, \h14, \h15, \h16, \h17, \h18, \h19, \h1a, \h1b, \h1c, \h1d, \h1e, \h6f,
                    \h01, \h00, \h01, \h02, \h03, \h04, \h05, \h06, \h07, \h08, \h09, \h0a, \h0b, \h0c, \h0d, \h0e, \h31, \h60,
                    \he0, \h52, \h60, \h10, \h60, \he0, \hf3>>,
         input |-> <<>>, gas |-> gas,
         static |-> FALSE, releases |-> TRUE,
         expect |-> [gasLeft |-> gas - (verylow * 5 + gbalance + mstore_size)]]

\* testNOTBALANCE, lines 1813-1841.
testNOTBALANCE ==
    LET gas == 20000
        words == (\he0 + 16 + 31) \div 32
        mstore_size == words * 1 + (words * words) \div 512 + 1
    IN  [code |-> <<\h60, \h00, \h60, \h00, \h31, \h60, \h11, \h60, \he0, \h52, \h60, \h10, \h60, \he0, \hf3>>,
         input |-> <<>>, gas |-> gas,
         static |-> FALSE, releases |-> TRUE,
         expect |-> [gasLeft |-> gas - (verylow * 6 + gbalance + mstore_size)]]

\* testORIGIN, lines 1844-1871.
testORIGIN ==
    LET gas == 20000
        words == (\he0 + 16 + 31) \div 32
        mstore_size == words * 1 + (words * words) \div 512 + 1
        extra_memory == 1
    IN  [code |-> <<\h32, \h60, \he0, \h52, \h60, \hf0, \h52, \h60, \h20, \h60, \he0, \hf3>>,
         input |-> <<>>, gas |-> gas,
         static |-> FALSE, releases |-> TRUE,
         expect |-> [gasLeft |-> gas - (base + verylow * 4 + mstore_size + extra_memory * 1)]]

\* testCALLER, lines 1873-1900.
testCALLER ==
    LET gas == 20000
        words == (\he0 + 16 + 31) \div 32
        mstore_size == words * 1 + (words * words) \div 512 + 1
        extra_memory == 1
    IN  [code |-> <<\h33, \h60, \he0, \h52, \h60, \hf0, \h52, \h60, \h20, \h60, \he0, \hf3>>,
         input |-> <<>>, gas |-> gas,
         static |-> FALSE, releases |-> TRUE,
         expect |-> [gasLeft |-> gas - (base + verylow * 4 + mstore_size + extra_memory * 1)]]

\* testCALLVALUE, lines 1902-1927.
testCALLVALUE ==
    LET gas == 20000
        words == (\he0 + 16 + 31) \div 32
        mstore_size == words * 1 + (words * words) \div 512 + 1
    IN  [code |-> <<\h34, \h60, \he0, \h52, \h60, \h10, \h60, \he0, \hf3>>,
         input |-> <<>>, gas |-> gas,
         static |-> FALSE, releases |-> TRUE,
         expect |-> [gasLeft |-> gas - (base + verylow * 3 + mstore_size)]]

\* testCALLVALUEPUSH, lines 1929-1956.
testCALLVALUEPUSH ==
    LET gas == 20000
        words == (\he0 + 16 + 31) \div 32
        mstore_size == words * 1 + (words * words) \div 512 + 1
    IN  [code |-> <<\h60, \h01, \h61, \h01, \h11, \h34, \h60, \he0, \h52, \h60, \h10, \h60, \he0, \hf3>>,
         input |-> <<>>, gas |-> gas,
         static |-> FALSE, releases |-> TRUE,
         expect |-> [gasLeft |-> gas - (base + verylow * 5 + mstore_size)]]

\* testCALLDATALOAD, lines 1958-1984.
testCALLDATALOAD ==
    LET gas == 20000
        words == (\he0 + 16 + 31) \div 32
        mstore_size == words * 1 + (words * words) \div 512 + 1
    IN  [code |-> <<\h60, \h00, \h35, \h60, \he0, \h52, \h60, \h10, \h60, \he0, \hf3>>,
         input |-> <<\h01, \h02, \h03>>, gas |-> gas,
         static |-> FALSE, releases |-> TRUE,
         expect |-> [gasLeft |-> gas - (verylow * 5 + mstore_size)]]

\* testCALLDATALOADPUSHMAX, lines 1986-2014.
testCALLDATALOADPUSHMAX ==
    LET gas == 20000
        words == (\he0 + 16 + 31) \div 32
        mstore_size == words * 1 + (words * words) \div 512 + 1
    IN  [code |-> <<\h60, \h00, \h6f, \h03, \h04, \h05, \h06, \h07, \h08, \h09, \h0a, \h0b, \h0c, \h0d, \h0e, \h0f, \h10, \h11,
                    \h12, \h35, \h60, \he0, \h52, \h60, \h10, \h60, \he0, \hf3>>,
         input |-> <<\h01, \h02, \h03>>, gas |-> gas,
         static |-> FALSE, releases |-> TRUE,
         expect |-> [gasLeft |-> gas - (verylow * 6 + mstore_size)]]

\* testCALLDATALOADCREATE, lines 2016-2048.
testCALLDATALOADCREATE ==
    LET gas == 2000000
        words == (\he0 + 16 + 31) \div 32
        mstore_size == words * 1 + (words * words) \div 512 + 1
    IN  [code |-> <<\h60, \h00, \h60, \h10, \h60, \he0, \h60, \h05, \hf0, \h35, \h60, \he0, \h52, \h60, \h10, \h60, \he0, \hf3>>,
         input |-> <<\h01, \h02, \h03>>, gas |-> gas,
         static |-> FALSE, releases |-> TRUE,
         expect |-> [gasLeft |-> gas - (verylow * 8 + mstore_size + create + zero)]]

\* testCALLDATASIZE, lines 2050-2076.
testCALLDATASIZE ==
    LET gas == 20000
        words == (\he0 + 16 + 31) \div 32
        mstore_size == words * 1 + (words * words) \div 512 + 1
    IN  [code |-> <<\h60, \h00, \h36, \h60, \he0, \h52, \h60, \h10, \h60, \he0, \hf3>>,
         input |-> <<\h01, \h02, \h03>>, gas |-> gas,
         static |-> FALSE, releases |-> TRUE,
         expect |-> [gasLeft |-> gas - (verylow * 4 + base + mstore_size)]]

\* testCALLDATACOPY, lines 2078-2105.
testCALLDATACOPY ==
    LET gas == 20000
        calldatacopyval == 32
        words == (\he0 + \h20 + 31) \div 32
        mstore_size == words * 1 + (words * words) \div 512
    IN  [code |-> <<\h60, \h20, \h60, \h00, \h60, \he0, \h37, \h60, \h20, \h60, \he0, \hf3>>,
         input |-> <<\h01, \h02, \h03>>, gas |-> gas,
         static |-> FALSE, releases |-> TRUE,
         expect |-> [gasLeft |-> gas - (verylow * 5 + verylow + gcopy * ((calldatacopyval + 31) \div 32) + mstore_size)]]

\* testCALLDATACOPYCREATE, lines 2107-2138.
testCALLDATACOPYCREATE ==
    LET gas == 2000000
        calldatacopyval == 3
        words == (\he0 + \h03 + 31) \div 32
        mstore_size == words * 1 + (words * words) \div 512
    IN  [code |-> <<\h60, \h10, \h60, \he0, \h60, \h05, \hf0, \h60, \h03, \h60, \h00, \h60, \he0, \h37, \h60, \h20, \h60, \he0,
                    \hf3>>,
         input |-> <<\h01, \h02, \h03>>, gas |-> gas,
         static |-> FALSE, releases |-> TRUE,
         expect |-> [gasLeft |-> gas - (verylow * 8 + create + verylow + gcopy * ((calldatacopyval + 31) \div 32) + mstore_size)]]

\* testCALLDATACOPYZERO, lines 2140-2166.
testCALLDATACOPYZERO ==
    LET gas == 20000
        calldatacopyval == 32
        words == (\he0 + \h20 + 31) \div 32
        mstore_size == words * 1 + (words * words) \div 512
    IN  [code |-> <<\h60, \h20, \h60, \h04, \h60, \he0, \h37, \h60, \h20, \h60, \he0, \hf3>>,
         input |-> <<\h01, \h02, \h03>>, gas |-> gas,
         static |-> FALSE, releases |-> TRUE,
         expect |-> [gasLeft |-> gas - (verylow * 5 + verylow + gcopy * ((calldatacopyval + 31) \div 32) + mstore_size)]]

\* testCODESIZE, lines 2168-2194.
testCODESIZE ==
    LET gas == 20000
        words == (\he0 + 16 + 31) \div 32
        mstore_size == words * 1 + (words * words) \div 512 + 1
    IN  [code |-> <<\h60, \h00, \h38, \h60, \he0, \h52, \h60, \h10, \h60, \he0, \hf3>>,
         input |-> <<>>, gas |-> gas,
         static |-> FALSE, releases |-> TRUE,
         expect |-> [gasLeft |-> gas - (verylow * 4 + base + mstore_size)]]

\* testCODESIZE2, lines 2196-2223.
testCODESIZE2 ==
    LET gas == 20000
        words == (\he0 + 16 + 31) \div 32
        mstore_size == words * 1 + (words * words) \div 512 + 1
    IN  [code |-> <<\h60, \h02, \h60, \h04, \h38, \h60, \he0, \h52, \h60, \h10, \h60, \he0, \hf3>>,
         input |-> <<>>, gas |-> gas,
         static |-> FALSE, releases |-> TRUE,
         expect |-> [gasLeft |-> gas - (verylow * 5 + base + mstore_size)]]

\* testCODESIZEEMPTY, lines 2225-2242.
testCODESIZEEMPTY ==
    LET gas == 20000
    IN  [code |-> <<\h38, \hf3>>,
         input |-> <<>>, gas |-> gas,
         static |-> FALSE, releases |-> TRUE,
         expect |-> [gasLeft |-> 0]]

\* testCODECOPY, lines 2244-2272.
testCODECOPY ==
    LET gas == 20000
        codevalue == 32
        words == (\he0 + \h20 + 31) \div 32
        mstore_size == words * 1 + (words * words) \div 512
    IN  [code |-> <<\h60, \h20, \h60, \h00, \h60, \he0, \h39, \h60, \h20, \h60, \he0, \hf3>>,
         input |-> <<\h01, \h02, \h03>>, gas |-> gas,
         static |-> FALSE, releases |-> TRUE,
         expect |-> [gasLeft |-> gas - (verylow * 5 + verylow + gcopy * ((codevalue + 31) \div 32) + mstore_size + zero)]]

\* testCODECOPY2, lines 2274-2303.
testCODECOPY2 ==
    LET gas == 20000
        codevalue == 64
        codecopy == 32
        words == (\he0 + 16 + 31) \div 32
        mstore_size == words * 1 + (words * words) \div 512 + 1
    IN  [code |-> <<\h60, \h40, \h60, \h00, \h60, \he0, \h39, \h60, \h20, \h60, \he0, \hf3>>,
         input |-> <<>>, gas |-> gas,
         static |-> FALSE, releases |-> TRUE,
         expect |-> [gasLeft |-> gas - (verylow * 5 + verylow + gcopy * (codevalue \div codecopy) + mstore_size + zero)]]

\* testGASPRICE, lines 2305-2330.
testGASPRICE ==
    LET gas == 20000
        words == (\he0 + 16 + 31) \div 32
        mstore_size == words * 1 + (words * words) \div 512 + 1
    IN  [code |-> <<\h3a, \h60, \he0, \h52, \h60, \h10, \h60, \he0, \hf3>>,
         input |-> <<>>, gas |-> gas,
         static |-> FALSE, releases |-> TRUE,
         expect |-> [gasLeft |-> gas - (base + verylow * 3 + mstore_size)]]

\* testEXTCODESIZE, lines 2332-2362.
testEXTCODESIZE ==
    LET gas == 20000
        words == (\he0 + 16 + 31) \div 32
        mstore_size == words * 1 + (words * words) \div 512 + 1
    IN  [code |-> <<\h6f, \h0f, \h10, \h11, \h12, \h13, \h14, \h15, \h16, \h17, \h18, \h19, \h1a, \h1b, \h1c, \h1d, \h1e, \h6f,
                    \h06, \h00, \h01, \h02, \h03, \h04, \h05, \h06, \h07, \h08, \h09, \h0a, \h0b, \h0c, \h0d, \h0e, \h3b, \h60,
                    \he0, \h52, \h60, \h10, \h60, \he0, \hf3>>,
         input |-> <<>>, gas |-> gas,
         static |-> FALSE, releases |-> TRUE,
         expect |-> [gasLeft |-> gas - (verylow * 5 + extcode + mstore_size)]]

\* testEXTCODESIZECREATE, lines 2364-2394.
testEXTCODESIZECREATE ==
    LET gas == 2000000
        words == (\he0 + 16 + 31) \div 32
        mstore_size == words * 1 + (words * words) \div 512 + 1
    IN  [code |-> <<\h6f, \h03, \h04, \h05, \h06, \h07, \h08, \h09, \h0a, \h0b, \h0c, \h0d, \h0e, \h0f, \h10, \h11, \h12, \h60,
                    \h10, \h60, \he0, \h60, \h05, \hf0, \h3b, \h60, \he0, \h52, \h60, \h10, \h60, \he0, \hf3>>,
         input |-> <<>>, gas |-> gas,
         static |-> FALSE, releases |-> TRUE,
         expect |-> [gasLeft |-> gas - (verylow * 7 + extcode + mstore_size + create + zero)]]

\* testEXTCODESIZEMAX, lines 2396-2423.
testEXTCODESIZEMAX ==
    LET gas == 20000
        words == (\he0 + 16 + 31) \div 32
        mstore_size == words * 1 + (words * words) \div 512 + 1
    IN  [code |-> <<\h7f, \h00, \h01, \h02, \h03, \h04, \h05, \h06, \h07, \h08, \h09, \h0a, \h0b, \h0c, \h0d, \h0e, \h0f, \h10,
                    \h11, \h12, \h13, \h14, \h15, \h16, \h17, \h18, \h19, \h20, \h21, \h22, \h23, \h24, \h25, \h3b, \h60, \he0,
                    \h52, \h60, \h10, \h60, \he0, \hf3>>,
         input |-> <<>>, gas |-> gas,
         static |-> FALSE, releases |-> TRUE,
         expect |-> [gasLeft |-> gas - (verylow * 4 + extcode + mstore_size)]]

\* testEXTCODECOPY, lines 2425-2456.
testEXTCODECOPY ==
    LET gas == 20000
        codeval == 32
        words == (\he0 + \h20 + 31) \div 32
        mstore_size == words * 1 + (words * words) \div 512
    IN  [code |-> <<\h60, \h20, \h60, \h00, \h60, \he0, \h6f, \h0f, \h10, \h11, \h12, \h13, \h14, \h15, \h16, \h17, \h18, \h19,
                    \h1a, \h1b, \h1c, \h1d, \h1e, \h6f, \h06, \h00, \h01, \h02, \h03, \h04, \h05, \h06, \h07, \h08, \h09, \h0a,
                    \h0b, \h0c, \h0d, \h0e, \h3c, \h60, \h20, \h60, \he0, \hf3>>,
         input |-> <<>>, gas |-> gas,
         static |-> FALSE, releases |-> TRUE,
         expect |-> [gasLeft |-> gas - (verylow * 7 + extcode + gcopy * ((codeval + 31) \div 32) + mstore_size + zero)]]

\* testEXTCODECOPY2, lines 2458-2489.
testEXTCODECOPY2 ==
    LET gas == 2000000
        codeval == 64
        words == (\he0 + \h40 + 31) \div 32
        mstore_size == words * 1 + (words * words) \div 512
    IN  [code |-> <<\h60, \h40, \h60, \h40, \h60, \he0, \h60, \h10, \h60, \he0, \h60, \h05, \hf0, \h3c, \h60, \h20, \h60, \he0,
                    \hf3>>,
         input |-> <<>>, gas |-> gas,
         static |-> FALSE, releases |-> TRUE,
         expect |-> [gasLeft |-> gas - (verylow * 8 + extcode + gcopy * ((codeval + 31) \div 32) + create + mstore_size + zero)]]

\* testBLOCKHASH, lines 2494-2521.
testBLOCKHASH ==
    LET gas == 20000
        words == (\he0 + 16 + 31) \div 32
        mstore_size == words * 1 + (words * words) \div 512 + 1
        extra_mstore == 1
    IN  [code |-> <<\h60, \h12, \h40, \h60, \he0, \h52, \h60, \hf0, \h52, \h60, \h20, \h60, \he0, \hf3>>,
         input |-> <<>>, gas |-> gas,
         static |-> FALSE, releases |-> TRUE,
         expect |-> [gasLeft |-> gas - (verylow * 5 + blockhash + mstore_size + extra_mstore * 1)]]

\* testBLOCKHASHMAX, lines 2523-2550.
testBLOCKHASHMAX ==
    LET gas == 20000
        words == (\he0 + 16 + 31) \div 32
        mstore_size == words * 1 + (words * words) \div 512 + 1
        extra_mstore == 1
    IN  [code |-> <<\h6f, \h00, \h01, \h02, \h03, \h04, \h05, \h06, \h07, \h08, \h09, \h0a, \h0b, \h0c, \h0d, \h0e, \h0f, \h40,
                    \h60, \he0, \h52, \h60, \hf0, \h52, \h60, \h20, \h60, \he0, \hf3>>,
         input |-> <<>>, gas |-> gas,
         static |-> FALSE, releases |-> TRUE,
         expect |-> [gasLeft |-> gas - (verylow * 5 + blockhash + mstore_size + extra_mstore * 1)]]

\* testBLOCKHASHZERO, lines 2552-2579.
testBLOCKHASHZERO ==
    LET gas == 20000
        words == (\he0 + 16 + 31) \div 32
        mstore_size == words * 1 + (words * words) \div 512 + 1
        extra_mstore == 1
    IN  [code |-> <<\h60, \h00, \h40, \h60, \he0, \h52, \h60, \hf0, \h52, \h60, \h20, \h60, \he0, \hf3>>,
         input |-> <<>>, gas |-> gas,
         static |-> FALSE, releases |-> TRUE,
         expect |-> [gasLeft |-> gas - (verylow * 5 + blockhash + mstore_size + extra_mstore * 1)]]

\* testCOINBASE, lines 2581-2608.
testCOINBASE ==
    LET gas == 20000
        words == (\he0 + 16 + 31) \div 32
        mstore_size == words * 1 + (words * words) \div 512 + 1
        extra_mstore == 1
    IN  [code |-> <<\h41, \h60, \he0, \h52, \h60, \hf0, \h52, \h60, \h20, \h60, \he0, \hf3>>,
         input |-> <<>>, gas |-> gas,
         static |-> FALSE, releases |-> TRUE,
         expect |-> [gasLeft |-> gas - (base + verylow * 4 + mstore_size + extra_mstore * 1)]]

\* testTIMESTAMP, lines 2610-2645.
testTIMESTAMP ==
    LET gas == 20000
        words == (\he0 + 16 + 31) \div 32
        mstore_size == words * 1 + (words * words) \div 512 + 1
    IN  [code |-> <<\h42, \h60, \he0, \h52, \h60, \h10, \h60, \he0, \hf3>>,
         input |-> <<>>, gas |-> gas,
         static |-> FALSE, releases |-> TRUE,
         expect |-> [gasLeft |-> gas - (base + verylow * 3 + mstore_size)]]

\* testNUMBER, lines 2647-2682.
testNUMBER ==
    LET gas == 20000
        words == (\he0 + 16 + 31) \div 32
        mstore_size == words * 1 + (words * words) \div 512 + 1
    IN  [code |-> <<\h43, \h60, \he0, \h52, \h60, \h10, \h60, \he0, \hf3>>,
         input |-> <<>>, gas |-> gas,
         static |-> FALSE, releases |-> TRUE,
         expect |-> [gasLeft |-> gas - (base + verylow * 3 + mstore_size)]]

\* testDIFFICULTY, lines 2684-2709.
testDIFFICULTY ==
    LET gas == 20000
        words == (\he0 + 16 + 31) \div 32
        mstore_size == words * 1 + (words * words) \div 512 + 1
    IN  [code |-> <<\h44, \h60, \he0, \h52, \h60, \h10, \h60, \he0, \hf3>>,
         input |-> <<>>, gas |-> gas,
         static |-> FALSE, releases |-> TRUE,
         expect |-> [gasLeft |-> gas - (base + verylow * 3 + mstore_size)]]

\* testGASLIMIT, lines 2711-2746.
testGASLIMIT ==
    LET gas == 20000
        words == (\he0 + 16 + 31) \div 32
        mstore_size == words * 1 + (words * words) \div 512 + 1
    IN  [code |-> <<\h45, \h60, \he0, \h52, \h60, \h10, \h60, \he0, \hf3>>,
         input |-> <<>>, gas |-> gas,
         static |-> FALSE, releases |-> TRUE,
         expect |-> [gasLeft |-> gas - (base + verylow * 3 + mstore_size)]]

\* testPOP, lines 2752-2779.
testPOP ==
    LET gas == 20000
        words == (\he0 + 16 + 31) \div 32
        mstore_size == words * 1 + (words * words) \div 512 + 1
    IN  [code |-> <<\h60, \h01, \h60, \h02, \h50, \h60, \he0, \h52, \h60, \h10, \h60, \he0, \hf3>>,
         input |-> <<>>, gas |-> gas,
         static |-> FALSE, releases |-> TRUE,
         expect |-> [gasLeft |-> gas - (verylow * 5 + base + mstore_size)]]

\* testPOPONE, lines 2781-2807.
testPOPONE ==
    LET gas == 20000
        words == (\he0 + 16 + 31) \div 32
        mstore_size == words * 1 + (words * words) \div 512 + 1
    IN  [code |-> <<\h60, \h01, \h50, \h60, \h01, \h60, \he0, \h52, \h60, \h10, \h60, \he0, \hf3>>,
         input |-> <<>>, gas |-> gas,
         static |-> FALSE, releases |-> TRUE,
         expect |-> [gasLeft |-> gas - (verylow * 5 + base + mstore_size)]]

\* testMLOAD, lines 2809-2836.
testMLOAD ==
    LET gas == 20000
        words == (\he0 + 16 + 31) \div 32
        mstore_size == words * 1 + (words * words) \div 512 + 1
    IN  [code |-> <<\h6f, \h00, \h01, \h02, \h03, \h04, \h05, \h06, \h07, \h08, \h09, \h0a, \h0b, \h0c, \h0d, \h0e, \h0f, \h60,
                    \he0, \h51, \h60, \hf0, \h52, \h60, \h10, \h60, \hf0, \hf3>>,
         input |-> <<>>, gas |-> gas,
         static |-> FALSE, releases |-> TRUE,
         expect |-> [gasLeft |-> gas - (verylow * 6 + mstore_size)]]

\* testMLOADEMPTY, lines 2838-2863.
testMLOADEMPTY ==
    LET gas == 20000
        words == (\he0 + 16 + 31) \div 32
        mstore_size == words * 1 + (words * words) \div 512 + 1
    IN  [code |-> <<\h6f, \h00, \h01, \h02, \h03, \h04, \h05, \h06, \h07, \h08, \h09, \h0a, \h0b, \h0c, \h0d, \h0e, \h0f, \h60,
                    \he0, \h51, \h60, \he0, \h52, \h60, \h10, \h60, \he0, \hf3>>,
         input |-> <<>>, gas |-> gas,
         static |-> FALSE, releases |-> TRUE,
         expect |-> [gasLeft |-> gas - (verylow * 6 + mstore_size + zero)]]

\* testMLOAD_MSTORE, lines 2865-2893.
testMLOAD_MSTORE ==
    LET gas == 20000
        words == (\he0 + 16 + 31) \div 32
        mstore_size == words * 1 + (words * words) \div 512 + 1
        extra_mstore == 1
    IN  [code |-> <<\h6f, \h00, \h01, \h02, \h03, \h04, \h05, \h06, \h07, \h08, \h09, \h0a, \h0b, \h0c, \h0d, \h0e, \h0f, \h60,
                    \he0, \h52, \h60, \he0, \h51, \h60, \hf0, \h52, \h60, \h10, \h60, \hf0, \hf3>>,
         input |-> <<>>, gas |-> gas,
         static |-> FALSE, releases |-> TRUE,
         expect |-> [gasLeft |-> gas - (verylow * 7 + mstore_size + extra_mstore * 1)]]

\* testMSTORE8, lines 2895-2925.
testMSTORE8 ==
    LET gas == 20000
        words == (\he0 + 16 + 31) \div 32
        mstore_size == words * 1 + (words * words) \div 512 + 1
        extra_mstore == 1
    IN  [code |-> <<\h6f, \h00, \h01, \h02, \h03, \h04, \h05, \h06, \h07, \h08, \h09, \h0a, \h0b, \h0c, \h0d, \h0e, \h0f, \h60,
                    \he0, \h53, \h60, \he0, \h51, \h60, \hf0, \h52, \h60, \h10, \h60, \hf0, \hf3>>,
         input |-> <<>>, gas |-> gas,
         static |-> FALSE, releases |-> TRUE,
         expect |-> [gasLeft |-> gas - (verylow * 6 + mstore_size + extra_mstore * 2)]]

\* testMSTORE8JUMP, lines 2927-2962.
testMSTORE8JUMP ==
    LET gas == 20000
        words == (\he0 + 16 + 31) \div 32
        mstore_size == words * 1 + (words * words) \div 512 + 1
        extra_mstore == 1
    IN  [code |-> <<\h60, \h01, \h60, \h07, \h56, \h60, \h02, \h5b, \h6f, \h00, \h01, \h02, \h03, \h04, \h05, \h06, \h07, \h08,
                    \h09, \h0a, \h0b, \h0c, \h0d, \h0e, \h0f, \h60, \he0, \h53, \h60, \he0, \h51, \h60, \hf0, \h52, \h60, \h10,
                    \h60, \hf0, \hf3>>,
         input |-> <<>>, gas |-> gas,
         static |-> FALSE, releases |-> TRUE,
         expect |-> [gasLeft |-> gas - (verylow * 8 + mid + jumpdest + mstore_size + extra_mstore * 2)]]

\* testMSTORE8ADD, lines 2964-2996.
testMSTORE8ADD ==
    LET gas == 20000
        words == (\he0 + 16 + 31) \div 32
        mstore_size == words * 1 + (words * words) \div 512 + 1
        extra_mstore == 1
    IN  [code |-> <<\h60, \h01, \h60, \h02, \h01, \h60, \he0, \h53, \h60, \he0, \h51, \h60, \hf0, \h52, \h60, \h10, \h60, \hf0,
                    \hf3>>,
         input |-> <<>>, gas |-> gas,
         static |-> FALSE, releases |-> TRUE,
         expect |-> [gasLeft |-> gas - (verylow * 8 + mstore_size + extra_mstore * 2)]]

\* testSLOAD, lines 2998-3023.
testSLOAD ==
    LET gas == 20000
        words == (\he0 + 16 + 31) \div 32
        mstore_size == words * 1 + (words * words) \div 512 + 1
    IN  [code |-> <<\h60, \h22, \h54, \h60, \he0, \h52, \h60, \h10, \h60, \he0, \hf3>>,
         input |-> <<>>, gas |-> gas,
         static |-> FALSE, releases |-> TRUE,
         expect |-> [gasLeft |-> gas - (verylow * 4 + sload + mstore_size)]]

\* testSLOAD_SSTORE, lines 3025-3053.
testSLOAD_SSTORE ==
    LET gas == 200000
        words == (\he0 + 16 + 31) \div 32
        mstore_size == words * 1 + (words * words) \div 512 + 1
    IN  [code |-> <<\h60, \h01, \h60, \h50, \h55, \h60, \h50, \h54, \h60, \he0, \h52, \h60, \h10, \h60, \he0, \hf3>>,
         input |-> <<>>, gas |-> gas,
         static |-> FALSE, releases |-> TRUE,
         expect |-> [gasLeft |-> gas - (verylow * 6 + sset + sload + mstore_size)]]

\* testSSTORE, lines 3055-3077.
testSSTORE ==
    LET gas == 20000 * 2
    IN  [code |-> <<\h6f, \h00, \h11, \h22, \h33, \h44, \h55, \h66, \h77, \h88, \h99, \h00, \h11, \h22, \h33, \h44, \h55, \h60,
                    \h22, \h55>>,
         input |-> <<>>, gas |-> gas,
         static |-> FALSE, releases |-> TRUE,
         expect |-> [gasLeft |-> gas - (verylow * 2 + sset),
                    stored |-> <<\h22, <<\h00, \h11, \h22, \h33, \h44, \h55, \h66, \h77, \h88, \h99, \h00, \h11, \h22, \h33, \h44, \h55>>>>]]

\* testSSTORESRESET, lines 3079-3102.
testSSTORESRESET ==
    LET gas == 200000
        words == (\h01 + 2 + 31) \div 32
        mexpansion_size == words * 1 + (words * words) \div 512
    IN  [code |-> <<\h60, \h02, \h60, \h01, \h60, \h00, \h60, \h22, \h55, \hf3>>,
         input |-> <<>>, gas |-> gas,
         static |-> FALSE, releases |-> TRUE,
         expect |-> [gasLeft |-> gas - (verylow * 4 + sreset + mexpansion_size),
                    stored |-> <<\h22, <<\h00, \h00, \h00, \h00, \h00, \h00, \h00, \h00, \h00, \h00, \h00, \h00, \h00, \h00, \h00, \h00>>>>]]

\* testJUMP, lines 3104-3132.
testJUMP ==
    LET gas == 20000
        words == (\he0 + 16 + 31) \div 32
        mstore_size == words * 1 + (words * words) \div 512 + 1
    IN  [code |-> <<\h60, \h01, \h60, \h07, \h56, \h60, \h02, \h5b, \h60, \he0, \h52, \h60, \h10, \h60, \he0, \hf3>>,
         input |-> <<>>, gas |-> gas,
         static |-> FALSE, releases |-> TRUE,
         expect |-> [gasLeft |-> gas - (verylow * 5 + mid + jumpdest + mstore_size)]]

\* testJUMPI, lines 3134-3164.
testJUMPI ==
    LET gas == 20000
        words == (\he0 + 16 + 31) \div 32
        mstore_size == words * 1 + (words * words) \div 512 + 1
    IN  [code |-> <<\h60, \h01, \h60, \h01, \h60, \h09, \h57, \h60, \h02, \h5b, \h60, \he0, \h52, \h60, \h10, \h60, \he0, \hf3>>,
         input |-> <<>>, gas |-> gas,
         static |-> FALSE, releases |-> TRUE,
         expect |-> [gasLeft |-> gas - (verylow * 6 + high + jumpdest + mstore_size)]]

\* testJUMPI2, lines 3166-3196.
testJUMPI2 ==
    LET gas == 20000
        words == (\he0 + 16 + 31) \div 32
        mstore_size == words * 1 + (words * words) \div 512 + 1
    IN  [code |-> <<\h60, \h01, \h60, \h00, \h60, \h09, \h57, \h60, \h02, \h5b, \h60, \he0, \h52, \h60, \h10, \h60, \he0, \hf3>>,
         input |-> <<>>, gas |-> gas,
         static |-> FALSE, releases |-> TRUE,
         expect |-> [gasLeft |-> gas - (verylow * 7 + high + jumpdest + mstore_size)]]

\* testPC, lines 3198-3224.
testPC ==
    LET gas == 20000
        words == (\he0 + 16 + 31) \div 32
        mstore_size == words * 1 + (words * words) \div 512 + 1
    IN  [code |-> <<\h60, \h01, \h58, \h60, \he0, \h52, \h60, \h10, \h60, \he0, \hf3>>,
         input |-> <<>>, gas |-> gas,
         static |-> FALSE, releases |-> TRUE,
         expect |-> [gasLeft |-> gas - (verylow * 4 + base + mstore_size)]]

\* testPCZERO, lines 3226-3251.
testPCZERO ==
    LET gas == 20000
        words == (\he0 + 16 + 31) \div 32
        mstore_size == words * 1 + (words * words) \div 512 + 1
    IN  [code |-> <<\h58, \h60, \he0, \h52, \h60, \h10, \h60, \he0, \hf3>>,
         input |-> <<>>, gas |-> gas,
         static |-> FALSE, releases |-> TRUE,
         expect |-> [gasLeft |-> gas - (verylow * 3 + base + mstore_size + zero)]]

\* testPCJUMP, lines 3253-3284.
testPCJUMP ==
    LET gas == 200000
        words == (\he0 + 16 + 31) \div 32
        mstore_size == words * 1 + (words * words) \div 512 + 1
    IN  [code |-> <<\h60, \h01, \h60, \h01, \h60, \h09, \h57, \h60, \h02, \h5b, \h58, \h60, \he0, \h52, \h60, \h10, \h60, \he0,
                    \hf3>>,
         input |-> <<>>, gas |-> gas,
         static |-> FALSE, releases |-> TRUE,
         expect |-> [gasLeft |-> gas - (verylow * 6 + high + jumpdest + base + mstore_size + zero)]]

\* testPCMSTORE, lines 3286-3315.
testPCMSTORE ==
    LET gas == 20000
        words == (\hf0 + 31) \div 32
        mstore_size == words * 1 + (words * words) \div 512 + 1
        extra_mstore == 1
    IN  [code |-> <<\h60, \h01, \h60, \he0, \h52, \h60, \h03, \h60, \hf0, \h52, \h58, \h60, \h10, \h60, \he0, \hf3>>,
         input |-> <<>>, gas |-> gas,
         static |-> FALSE, releases |-> TRUE,
         expect |-> [gasLeft |-> gas - (verylow * 6 + base + mstore_size + extra_mstore * 1 + zero)]]

\* testPCPUSH, lines 3317-3349.
testPCPUSH ==
    LET gas == 20000
        words == (\he0 + 16 + 31) \div 32
        mstore_size == words * 1 + (words * words) \div 512 + 1
    IN  [code |-> <<\h60, \h01, \h60, \h10, \h60, \h02, \h60, \h03, \h60, \h04, \h60, \h05, \h60, \h06, \h58, \h60, \he0, \h52,
                    \h60, \h10, \h60, \he0, \hf3>>,
         input |-> <<>>, gas |-> gas,
         static |-> FALSE, releases |-> TRUE,
         expect |-> [gasLeft |-> gas - (verylow * 10 + base + mstore_size + zero)]]

\* testPCSELFDESTRUCT, lines 3351-3378.
testPCSELFDESTRUCT ==
    LET gas == 20000
    IN  [code |-> <<\h6f, \h11, \h22, \h33, \h44, \h55, \h66, \h77, \h88, \h11, \h22, \h33, \h44, \h55, \h66, \h77, \h88, \h6f,
                    \h00, \h00, \h00, \h00, \h00, \h00, \h00, \h00, \h00, \h00, \h00, \h00, \h11, \h22, \h33, \h44, \hff, \h58,
                    \h60, \he0, \h52, \h60, \h10, \h60, \he0, \hf3>>,
         input |-> <<>>, gas |-> gas,
         static |-> FALSE, releases |-> TRUE,
         expect |-> [gasLeft |-> gas - (verylow * 2 + suicide + zero)]]

\* testPCCREATE, lines 3380-3411.
testPCCREATE ==
    LET gas == 2000000
        words == (\he0 + 16 + 31) \div 32
        mstore_size == words * 1 + (words * words) \div 512 + 1
    IN  [code |-> <<\h60, \h01, \h60, \h10, \h60, \he0, \h60, \h05, \hf0, \h58, \h60, \he0, \h52, \h60, \h10, \h60, \he0, \hf3>>,
         input |-> <<>>, gas |-> gas,
         static |-> FALSE, releases |-> TRUE,
         expect |-> [gasLeft |-> gas - (verylow * 7 + base + create + mstore_size + zero)]]

\* testMSIZE, lines 3413-3442.
testMSIZE ==
    LET gas == 20000
        words == (\hfff0 + 16 + 31) \div 32
        mstore_size == words * 1 + (words * words) \div 512 + 1
        extra_mstore == 1
    IN  [code |-> <<\h60, \h01, \h61, \hff, \hf0, \h52, \h59, \h60, \he0, \h52, \h60, \h10, \h60, \he0, \hf3>>,
         input |-> <<>>, gas |-> gas,
         static |-> FALSE, releases |-> TRUE,
         expect |-> [gasLeft |-> gas - (verylow * 5 + mstore_size + extra_mstore * 1 + base + zero)]]

\* testMSIZEEMPTY, lines 3444-3469.
testMSIZEEMPTY ==
    LET gas == 20000
        words == (\he0 + 16 + 31) \div 32
        mstore_size == words * 1 + (words * words) \div 512 + 1
    IN  [code |-> <<\h59, \h60, \he0, \h52, \h60, \h10, \h60, \he0, \hf3>>,
         input |-> <<>>, gas |-> gas,
         static |-> FALSE, releases |-> TRUE,
         expect |-> [gasLeft |-> gas - (verylow * 3 + mstore_size + base + zero)]]

\* testMSIZESTOREMULTIPLE, lines 3471-3507.
testMSIZESTOREMULTIPLE ==
    LET gas == 20000
        words == (\hfff0 + 16 + 31) \div 32
        mstore_size == words * 1 + (words * words) \div 512 + 1
        extra_mstore == 1
    IN  [code |-> <<\h60, \h01, \h61, \hff, \hf0, \h52, \h60, \hff, \h60, \he0, \h52, \h6f, \hff, \hff, \hff, \hff, \hff, \hff,
                    \hff, \hff, \hff, \hff, \hff, \hff, \hff, \hff, \hff, \hff, \h60, \hd0, \h52, \h59, \h60, \he0, \h52, \h60,
                    \h10, \h60, \he0, \hf3>>,
         input |-> <<>>, gas |-> gas,
         static |-> FALSE, releases |-> TRUE,
         expect |-> [gasLeft |-> gas - (verylow * 9 + extra_mstore * 3 + mstore_size + base + zero)]]

\* testGAS, lines 3509-3546.
testGAS ==
    LET gas == 20000
        words == (\he0 + 16 + 31) \div 32
        mstore_size == words * 1 + (words * words) \div 512 + 1
        left == gas - verylow * 1 - base
    IN  [code |-> <<\h60, \h01, \h5a, \h60, \he0, \h52, \h60, \h10, \h60, \he0, \hf3>>,
         input |-> <<>>, gas |-> gas,
         static |-> FALSE, releases |-> TRUE,
         expect |-> [gasLeft |-> gas - (verylow * 4 + base + mstore_size)]]

\* testGASPUSH, lines 3549-3588.
testGASPUSH ==
    LET gas == 20000
        words == (\he0 + 16 + 31) \div 32
        mstore_size == words * 1 + (words * words) \div 512 + 1
        left == gas - verylow * 3 - base
    IN  [code |-> <<\h60, \h02, \h60, \h03, \h60, \h01, \h5a, \h60, \he0, \h52, \h60, \h10, \h60, \he0, \hf3>>,
         input |-> <<>>, gas |-> gas,
         static |-> FALSE, releases |-> TRUE,
         expect |-> [gasLeft |-> gas - (verylow * 6 + base + mstore_size)]]

\* testGASMSTORE, lines 3590-3631.
testGASMSTORE ==
    LET gas == 20000
        words == (\he0 + 16 + 31) \div 32
        mstore_size == words * 1 + (words * words) \div 512 + 1
        extra_mstore == 1
        left == gas - verylow * 3 - mstore_size - base
    IN  [code |-> <<\h60, \h04, \h60, \he0, \h52, \h60, \h01, \h5a, \h60, \he0, \h52, \h60, \h10, \h60, \he0, \hf3>>,
         input |-> <<>>, gas |-> gas,
         static |-> FALSE, releases |-> TRUE,
         expect |-> [gasLeft |-> gas - (verylow * 6 + base + mstore_size + extra_mstore * 1)]]

\* testGASJUMP, lines 3633-3675.
testGASJUMP ==
    LET gas == 200000
        words == (\he0 + 16 + 31) \div 32
        mstore_size == words * 1 + (words * words) \div 512 + 1
        left == gas - verylow * 3 - high - jumpdest - base
    IN  [code |-> <<\h60, \h01, \h60, \h01, \h60, \h09, \h57, \h60, \h02, \h5b, \h5a, \h60, \he0, \h52, \h60, \h10, \h60, \he0,
                    \hf3>>,
         input |-> <<>>, gas |-> gas,
         static |-> FALSE, releases |-> TRUE,
         expect |-> [gasLeft |-> gas - (verylow * 6 + mstore_size + base + high + jumpdest + zero)]]

\* testPUSH20, lines 3681-3712.
testPUSH20 ==
    LET gas == 20000
        words == (\hf0 + 16 + 31) \div 32
        mstore_size == words * 1 + (words * words) \div 512 + 1
        extra_mstore == 1
    IN  [code |-> <<\h73, \h00, \h01, \h02, \h03, \h04, \h05, \h06, \h07, \h08, \h09, \h0a, \h0b, \h0c, \h0d, \h0e, \h0f, \h10,
                    \h11, \h12, \h13, \h60, \he0, \h52, \h60, \hf0, \h52, \h60, \h20, \h60, \he0, \hf3>>,
         input |-> <<>>, gas |-> gas,
         static |-> FALSE, releases |-> TRUE,
         expect |-> [gasLeft |-> gas - (verylow * 5 + mstore_size + extra_mstore * 1)]]

\* testPUSH32, lines 3714-3744.
testPUSH32 ==
    LET gas == 20000
        words == (\hf0 + 16 + 31) \div 32
        mstore_size == words * 1 + (words * words) \div 512 + 1
        extra_mstore == 1
    IN  [code |-> <<\h7f, \h00, \h01, \h02, \h03, \h04, \h05, \h06, \h07, \h08, \h09, \h0a, \h0b, \h0c, \h0d, \h0e, \h0f, \h10,
                    \h11, \h12, \h13, \h14, \h15, \h16, \h17, \h18, \h19, \h20, \h21, \h22, \h23, \h24, \h25, \h60, \he0, \h52,
                    \h60, \hf0, \h52, \h60, \h20, \h60, \he0, \hf3>>,
         input |-> <<>>, gas |-> gas,
         static |-> FALSE, releases |-> TRUE,
         expect |-> [gasLeft |-> gas - (verylow * 5 + mstore_size + extra_mstore * 1)]]

\* testDUP1, lines 3750-3776.
testDUP1 ==
    LET gas == 20000
        words == (\he0 + 16 + 31) \div 32
        mstore_size == words * 1 + (words * words) \div 512 + 1
    IN  [code |-> <<\h60, \h04, \h80, \h60, \he0, \h52, \h60, \h10, \h60, \he0, \hf3>>,
         input |-> <<>>, gas |-> gas,
         static |-> FALSE, releases |-> TRUE,
         expect |-> [gasLeft |-> gas - (verylow * 5 + mstore_size + zero)]]

\* testDUP10, lines 3778-3813.
testDUP10 ==
    LET gas == 200000
        words == (\he0 + 16 + 31) \div 32
        mstore_size == words * 1 + (words * words) \div 512 + 1
    IN  [code |-> <<\h60, \h01, \h60, \h02, \h60, \h03, \h60, \h04, \h60, \h05, \h60, \h06, \h60, \h07, \h60, \h08, \h60, \h09,
                    \h60, \h10, \h82, \h60, \he0, \h52, \h60, \h10, \h60, \he0, \hf3>>,
         input |-> <<>>, gas |-> gas,
         static |-> FALSE, releases |-> TRUE,
         expect |-> [gasLeft |-> gas - (verylow * 14 + mstore_size + zero)]]

\* testDUP16, lines 3815-3857.
testDUP16 ==
    LET gas == 20000
        words == (\he0 + 16 + 31) \div 32
        mstore_size == words * 1 + (words * words) \div 512 + 1
    IN  [code |-> <<\h60, \h01, \h60, \h02, \h60, \h03, \h60, \h04, \h60, \h05, \h60, \h06, \h60, \h07, \h60, \h08, \h60, \h09,
                    \h60, \h10, \h60, \h11, \h60, \h12, \h60, \h13, \h60, \h14, \h60, \h15, \h60, \h16, \h60, \h17, \h8f, \h60,
                    \he0, \h52, \h60, \h10, \h60, \he0, \hf3>>,
         input |-> <<>>, gas |-> gas,
         static |-> FALSE, releases |-> TRUE,
         expect |-> [gasLeft |-> gas - (verylow * 21 + mstore_size)]]

\* testSWAP1, lines 3863-3892.
testSWAP1 ==
    LET gas == 20000
        words == (\he0 + 16 + 31) \div 32
        mstore_size == words * 1 + (words * words) \div 512 + 1
    IN  [code |-> <<\h60, \h01, \h60, \h02, \h60, \h03, \h60, \h04, \h90, \h60, \he0, \h52, \h60, \h10, \h60, \he0, \hf3>>,
         input |-> <<>>, gas |-> gas,
         static |-> FALSE, releases |-> TRUE,
         expect |-> [gasLeft |-> gas - (verylow * 8 + mstore_size)]]

\* testSWAP2, lines 3894-3923.
testSWAP2 ==
    LET gas == 20000
        words == (\he0 + 16 + 31) \div 32
        mstore_size == words * 1 + (words * words) \div 512 + 1
    IN  [code |-> <<\h60, \h01, \h60, \h02, \h60, \h03, \h60, \h04, \h91, \h60, \he0, \h52, \h60, \h10, \h60, \he0, \hf3>>,
         input |-> <<>>, gas |-> gas,
         static |-> FALSE, releases |-> TRUE,
         expect |-> [gasLeft |-> gas - (verylow * 8 + mstore_size)]]

\* testSWAP10, lines 3925-3963.
testSWAP10 ==
    LET gas == 20000
        words == (\he0 + 16 + 31) \div 32
        mstore_size == words * 1 + (words * words) \div 512 + 1
    IN  [code |-> <<\h60, \h01, \h60, \h02, \h60, \h03, \h60, \h04, \h60, \h50, \h60, \h50, \h60, \h50, \h60, \h50, \h60, \h50,
                    \h60, \h50, \h60, \h50, \h60, \h50, \h60, \h50, \h99, \h60, \he0, \h52, \h60, \h10, \h60, \he0, \hf3>>,
         input |-> <<>>, gas |-> gas,
         static |-> FALSE, releases |-> TRUE,
         expect |-> [gasLeft |-> gas - (verylow * 17 + mstore_size)]]

\* testSWAP16, lines 3965-4010.
testSWAP16 ==
    LET gas == 20000
        words == (\he0 + 16 + 31) \div 32
        mstore_size == words * 1 + (words * words) \div 512 + 1
    IN  [code |-> <<\h60, \h01, \h60, \h02, \h60, \h03, \h60, \h04, \h60, \h05, \h60, \h06, \h60, \h07, \h60, \h08, \h60, \h09,
                    \h60, \h10, \h60, \h11, \h60, \h12, \h60, \h13, \h60, \h14, \h60, \h15, \h60, \h16, \h60, \h17, \h60, \h18,
                    \h60, \h19, \h60, \h20, \h9f, \h60, \he0, \h52, \h60, \h10, \h60, \he0, \hf3>>,
         input |-> <<>>, gas |-> gas,
         static |-> FALSE, releases |-> TRUE,
         expect |-> [gasLeft |-> gas - (verylow * 24 + mstore_size)]]

\* testSWAPPUSHMAX, lines 4012-4049.
testSWAPPUSHMAX ==
    LET gas == 20000
        words == (\he0 + 16 + 31) \div 32
        mstore_size == words * 1 + (words * words) \div 512 + 1
    IN  [code |-> <<\h60, \h01, \h60, \h02, \h60, \h03, \h60, \h04, \h6f, \hff, \hff, \hff, \hff, \hff, \hff, \hff, \hff, \hff,
                    \hff, \hff, \hff, \hff, \hff, \hff, \hff, \h60, \h06, \h60, \h07, \h60, \h08, \h60, \h09, \h60, \h10, \h94,
                    \h60, \he0, \h52, \h60, \h10, \h60, \he0, \hf3>>,
         input |-> <<>>, gas |-> gas,
         static |-> FALSE, releases |-> TRUE,
         expect |-> [gasLeft |-> gas - (verylow * 14 + mstore_size)]]

\* testSWAPCREATE, lines 4051-4101.
testSWAPCREATE ==
    LET gas == 2000000
        words == (\he0 + 16 + 31) \div 32
        mstore_size == words * 1 + (words * words) \div 512 + 1
    IN  [code |-> <<\h60, \h01, \h60, \h02, \h60, \h03, \h60, \h04, \h60, \h05, \h60, \h06, \h60, \h07, \h60, \h08, \h60, \h09,
                    \h6f, \h00, \h11, \h22, \h33, \h44, \h55, \h66, \h77, \h88, \h99, \h00, \h11, \h22, \h33, \h44, \h55, \h60,
                    \he0, \h52, \h60, \h10, \h60, \he0, \h60, \h05, \hf0, \h60, \h50, \h60, \h50, \h60, \h50, \h60, \h50, \h60,
                    \h50, \h99, \h60, \he0, \h52, \h60, \h10, \h60, \he0, \hf3>>,
         input |-> <<>>, gas |-> gas,
         static |-> FALSE, releases |-> TRUE,
         expect |-> [gasLeft |-> gas - (verylow * 23 + mstore_size + 1 * 1 + create)]]

\* testLOG0, lines 4108-4140.
testLOG0 ==
    LET gas == 20000
        words == (\he0 + 16 + 31) \div 32
        mstore_size == words * 1 + (words * words) \div 512 + 1
        log_nrg == glog + logdata * \h10
    IN  [code |-> <<\h6f, \h00, \h11, \h22, \h33, \h44, \h55, \h66, \h77, \h88, \h99, \h00, \h11, \h22, \h33, \h44, \h55, \h60,
                    \he0, \h52, \h60, \h10, \h60, \he0, \ha0>>,
         input |-> <<>>, gas |-> gas,
         static |-> FALSE, releases |-> FALSE,
         expect |-> [gasLeft |-> gas - (verylow * 4 + mstore_size + log_nrg),
                    logTopicsCount |-> 0 * 2,
                    logDataSize |-> 16]]

\* testLOG1, lines 4143-4179.
testLOG1 ==
    LET gas == 20000
        words == (\he0 + 16 + 31) \div 32
        mstore_size == words * 1 + (words * words) \div 512 + 1
        log_nrg == glog + logdata * \h10 + logtopic * 1
    IN  [code |-> <<\h6f, \h00, \h11, \h22, \h33, \h44, \h55, \h66, \h77, \h88, \h99, \h00, \h11, \h22, \h33, \h44, \h55, \h60,
                    \he0, \h52, \h60, \h01, \h60, \h01, \h60, \h10, \h60, \he0, \ha1>>,
         input |-> <<>>, gas |-> gas,
         static |-> FALSE, releases |-> FALSE,
         expect |-> [gasLeft |-> gas - (verylow * 6 + mstore_size + log_nrg),
                    logTopicsCount |-> 1 * 2,
                    logDataSize |-> 16]]

\* testLOG2, lines 4181-4222.
testLOG2 ==
    LET gas == 20000
        words == (\he0 + 16 + 31) \div 32
        mstore_size == words * 1 + (words * words) \div 512 + 1
    IN  [code |-> <<\h6f, \h00, \h11, \h22, \h33, \h44, \h55, \h66, \h77, \h88, \h99, \h00, \h11, \h22, \h33, \h44, \h55, \h60,
                    \he0, \h52, \h60, \h02, \h60, \h02, \h60, \h01, \h60, \h01, \h60, \h10, \h60, \he0, \ha2>>,
         input |-> <<>>, gas |-> gas,
         static |-> FALSE, releases |-> FALSE,
         expect |-> [gasLeft |-> gas - (verylow * 8 + mstore_size + glog + logdata * 16 + 2 * logtopic),
                    logTopicsCount |-> 2 * 2,
                    logDataSize |-> 16]]

\* testLOG3, lines 4225-4271.
testLOG3 ==
    LET gas == 20000
        words == (\he0 + 16 + 31) \div 32
        mstore_size == words * 1 + (words * words) \div 512 + 1
    IN  [code |-> <<\h6f, \h00, \h11, \h22, \h33, \h44, \h55, \h66, \h77, \h88, \h99, \h00, \h11, \h22, \h33, \h44, \h55, \h60,
                    \he0, \h52, \h60, \h03, \h60, \h03, \h60, \h02, \h60, \h02, \h60, \h01, \h60, \h01, \h60, \h10, \h60, \he0,
                    \ha3>>,
         input |-> <<>>, gas |-> gas,
         static |-> FALSE, releases |-> FALSE,
         expect |-> [gasLeft |-> gas - (verylow * 10 + mstore_size + glog + logdata * 16 + 3 * logtopic),
                    logTopicsCount |-> 3 * 2,
                    logDataSize |-> 16]]

\* testLOG4, lines 4274-4324.
testLOG4 ==
    LET gas == 20000
        words == (\he0 + 16 + 31) \div 32
        mstore_size == words * 1 + (words * words) \div 512 + 1
    IN  [code |-> <<\h6f, \h00, \h11, \h22, \h33, \h44, \h55, \h66, \h77, \h88, \h99, \h00, \h11, \h22, \h33, \h44, \h55, \h60,
                    \he0, \h52, \h60, \h04, \h60, \h04, \h60, \h03, \h60, \h03, \h60, \h02, \h60, \h02, \h60, \h01, \h60, \h01,
                    \h60, \h10, \h60, \he0, \ha4>>,
         input |-> <<>>, gas |-> gas,
         static |-> FALSE, releases |-> FALSE,
         expect |-> [gasLeft |-> gas - (verylow * 12 + mstore_size + glog + logdata * 16 + 4 * logtopic),
                    logTopicsCount |-> 4 * 2,
                    logDataSize |-> 16]]

\* testCREATE, lines 4330-4382.
testCREATE ==
    LET gas == 2000000
        words == (\he0 + 16 + 31) \div 32
        mstore_size == words * 1 + (words * words) \div 512 + 1
        extra_mstore == 1
    IN  [code |-> <<\h6f, \h00, \h11, \h22, \h33, \h44, \h55, \h66, \h77, \h88, \h99, \h00, \h11, \h22, \h33, \h44, \h55, \h60,
                    \he0, \h52, \h60, \h10, \h60, \he0, \h60, \h05, \hf0, \h60, \he0, \h52, \h60, \hf0, \h52, \h60, \h20, \h60,
                    \he0, \hf3>>,
         input |-> <<>>, gas |-> gas,
         static |-> FALSE, releases |-> FALSE,
         expect |-> [gasLeft |-> gas - (mstore_size + verylow * 9 + create + extra_mstore * 2 + zero),
                    callInputSize |-> 16,
                    callDepth |-> 1,
                    callKind |-> 3,
                    callFlags |-> 0,
                    callGasBelowBudget |-> TRUE,
                    callCaller |-> "address",
                    callValue |-> <<\h00, \h00, \h00, \h00, \h00, \h00, \h00, \h00, \h00, \h00, \h00, \h00, \h00, \h00, \h00, \h05>>]]

\* testCALL, lines 4385-4447.
testCALL ==
    LET gas == 200000
        words == (\he0 + 16 + 31) \div 32
        mstore_size == words * 1 + (words * words) \div 512 + 1
        call_nrg == callvalue + gcall + 5000
        call_refund == 5000 + callstipend
    IN  [code |-> <<\h6f, \h00, \h11, \h22, \h33, \h44, \h55, \h66, \h77, \h88, \h99, \h00, \h11, \h22, \h33, \h44, \h55, \h60,
                    \he0, \h52, \h60, \h10, \h60, \hf0, \h60, \h10, \h60, \he0, \h60, \h05, \h6f, \h0f, \h10, \h11, \h12, \h13,
                    \h14, \h15, \h16, \h17, \h18, \h19, \h1a, \h1b, \h1c, \h1d, \h1e, \h6f, \h01, \h00, \h01, \h02, \h03, \h04,
                    \h05, \h06, \h07, \h08, \h09, \h0a, \h0b, \h0c, \h0d, \h0e, \h61, \h13, \h88, \hf1, \h60, \h10, \h60, \hf0,
                    \hf3>>,
         input |-> <<>>, gas |-> gas,
         static |-> FALSE, releases |-> FALSE,
         expect |-> [gasLeft |-> gas - (verylow * 12 + mstore_size + call_nrg - call_refund + zero),
                    callInputSize |-> 16,
                    callDepth |-> 1,
                    callKind |-> 0,
                    callFlags |-> 0,
                    callGasBelowBudget |-> TRUE,
                    callAddress |-> <<\h01, \h00, \h01, \h02, \h03, \h04, \h05, \h06, \h07, \h08, \h09, \h0a, \h0b, \h0c, \h0d, \h0e, \h0f, \h10,
                                     \h11, \h12, \h13, \h14, \h15, \h16, \h17, \h18, \h19, \h1a, \h1b, \h1c, \h1d, \h1e>>,
                    callCaller |-> "address",
                    callValue |-> <<\h00, \h00, \h00, \h00, \h00, \h00, \h00, \h00, \h00, \h00, \h00, \h00, \h00, \h00, \h00, \h05>>]]

\* testCALLACCTANDVALEXISTS, lines 4449-4511.
testCALLACCTANDVALEXISTS ==
    LET gas == 200000
        words == (\he0 + 16 + 31) \div 32
        mstore_size == words * 1 + (words * words) \div 512 + 1
        call_nrg == newaccount + callvalue + gcall + 5000
        call_refund == 5000 + callstipend
    IN  [code |-> <<\h6f, \h00, \h11, \h22, \h33, \h44, \h55, \h66, \h77, \h88, \h99, \h00, \h11, \h22, \h33, \h44, \h55, \h60,
                    \he0, \h52, \h60, \h10, \h60, \hf0, \h60, \h10, \h60, \he0, \h60, \h11, \h6f, \h0f, \h0f, \h0f, \h0f, \h0f,
                    \h0f, \h0f, \h0f, \h0f, \h0f, \h0f, \h0f, \h0f, \h0f, \h0f, \h0f, \h6f, \h0f, \h0f, \h0f, \h0f, \h0f, \h0f,
                    \h0f, \h0f, \h0f, \h0f, \h0f, \h0f, \h0f, \h0f, \h0f, \h0f, \h61, \h13, \h88, \hf1, \h60, \h10, \h60, \hf0,
                    \hf3>>,
         input |-> <<>>, gas |-> gas,
         static |-> FALSE, releases |-> FALSE,
         expect |-> [gasLeft |-> gas - (verylow * 12 + mstore_size + call_nrg - call_refund + zero),
                    callInputSize |-> 16,
                    callDepth |-> 1,
                    callKind |-> 0,
                    callFlags |-> 0,
                    callGasBelowBudget |-> TRUE,
                    callAddress |-> <<\h0f, \h0f, \h0f, \h0f, \h0f, \h0f, \h0f, \h0f, \h0f, \h0f, \h0f, \h0f, \h0f, \h0f, \h0f, \h0f, \h0f, \h0f,
                                     \h0f, \h0f, \h0f, \h0f, \h0f, \h0f, \h0f, \h0f, \h0f, \h0f, \h0f, \h0f, \h0f, \h0f>>,
                    callCaller |-> "address",
                    callValue |-> <<\h00, \h00, \h00, \h00, \h00, \h00, \h00, \h00, \h00, \h00, \h00, \h00, \h00, \h00, \h00, \h11>>]]

\* testCALLACCTEXISTS, lines 4513-4575.
testCALLACCTEXISTS ==
    LET gas == 200000
        words == (\he0 + 16 + 31) \div 32
        mstore_size == words * 1 + (words * words) \div 512 + 1
        call_nrg == gcall + 5000
        call_refund == 5000
    IN  [code |-> <<\h6f, \h00, \h11, \h22, \h33, \h44, \h55, \h66, \h77, \h88, \h99, \h00, \h11, \h22, \h33, \h44, \h55, \h60,
                    \he0, \h52, \h60, \h10, \h60, \hf0, \h60, \h10, \h60, \he0, \h60, \h00, \h6f, \h0f, \h0f, \h0f, \h0f, \h0f,
                    \h0f, \h0f, \h0f, \h0f, \h0f, \h0f, \h0f, \h0f, \h0f, \h0f, \h0f, \h6f, \h0f, \h0f, \h0f, \h0f, \h0f, \h0f,
                    \h0f, \h0f, \h0f, \h0f, \h0f, \h0f, \h0f, \h0f, \h0f, \h0f, \h61, \h13, \h88, \hf1, \h60, \h10, \h60, \hf0,
                    \hf3>>,
         input |-> <<>>, gas |-> gas,
         static |-> FALSE, releases |-> FALSE,
         expect |-> [gasLeft |-> gas - (verylow * 12 + mstore_size + call_nrg - call_refund + zero),
                    callInputSize |-> 16,
                    callDepth |-> 1,
                    callKind |-> 0,
                    callFlags |-> 0,
                    callGasBelowBudget |-> TRUE,
                    callAddress |-> <<\h0f, \h0f, \h0f, \h0f, \h0f, \h0f, \h0f, \h0f, \h0f, \h0f, \h0f, \h0f, \h0f, \h0f, \h0f, \h0f, \h0f, \h0f,
                                     \h0f, \h0f, \h0f, \h0f, \h0f, \h0f, \h0f, \h0f, \h0f, \h0f, \h0f, \h0f, \h0f, \h0f>>,
                    callCaller |-> "address",
                    callValue |-> <<\h00, \h00, \h00, \h00, \h00, \h00, \h00, \h00, \h00, \h00, \h00, \h00, \h00, \h00, \h00, \h00>>]]

\* testCALLCODE, lines 4577-4645.
testCALLCODE ==
    LET gas == 200000
        words == (\he0 + 16 + 31) \div 32
        mstore_size == words * 1 + (words * words) \div 512 + 1
        call_nrg == callvalue + gcall + 5000
        call_refund == 5000 + callstipend
    IN  [code |-> <<\h6f, \h00, \h11, \h22, \h33, \h44, \h55, \h66, \h77, \h88, \h99, \h00, \h11, \h22, \h33, \h44, \h55, \h60,
                    \he0, \h52, \h60, \h10, \h60, \hf0, \h60, \h10, \h60, \he0, \h60, \h05, \h6f, \h0f, \h10, \h11, \h12, \h13,
                    \h14, \h15, \h16, \h17, \h18, \h19, \h1a, \h1b, \h1c, \h1d, \h1e, \h6f, \h01, \h00, \h01, \h02, \h03, \h04,
                    \h05, \h06, \h07, \h08, \h09, \h0a, \h0b, \h0c, \h0d, \h0e, \h61, \h13, \h88, \hf2, \h60, \h10, \h60, \hf0,
                    \hf3>>,
         input |-> <<>>, gas |-> gas,
         static |-> FALSE, releases |-> FALSE,
         expect |-> [gasLeft |-> gas - (verylow * 12 + mstore_size + call_nrg - call_refund + zero),
                    callInputSize |-> 16,
                    callDepth |-> 1,
                    callKind |-> 2,
                    callFlags |-> 0,
                    callGasBelowBudget |-> TRUE,
                    callAddress |-> <<\h01, \h00, \h01, \h02, \h03, \h04, \h05, \h06, \h07, \h08, \h09, \h0a, \h0b, \h0c, \h0d, \h0e, \h0f, \h10,
                                     \h11, \h12, \h13, \h14, \h15, \h16, \h17, \h18, \h19, \h1a, \h1b, \h1c, \h1d, \h1e>>,
                    callCaller |-> "address",
                    callValue |-> <<\h00, \h00, \h00, \h00, \h00, \h00, \h00, \h00, \h00, \h00, \h00, \h00, \h00, \h00, \h00, \h05>>]]

\* testCALLCODEACCTANDVALEXISTS, lines 4647-4715.
testCALLCODEACCTANDVALEXISTS ==
    LET gas == 200000
        words == (\he0 + 16 + 31) \div 32
        mstore_size == words * 1 + (words * words) \div 512 + 1
        call_nrg == callvalue + gcall + 5000
        call_refund == 5000 + callstipend
    IN  [code |-> <<\h6f, \h00, \h11, \h22, \h33, \h44, \h55, \h66, \h77, \h88, \h99, \h00, \h11, \h22, \h33, \h44, \h55, \h60,
                    \he0, \h52, \h60, \h10, \h60, \hf0, \h60, \h10, \h60, \he0, \h60, \h11, \h6f, \h0f, \h0f, \h0f, \h0f, \h0f,
                    \h0f, \h0f, \h0f, \h0f, \h0f, \h0f, \h0f, \h0f, \h0f, \h0f, \h0f, \h6f, \h0f, \h0f, \h0f, \h0f, \h0f, \h0f,
                    \h0f, \h0f, \h0f, \h0f, \h0f, \h0f, \h0f, \h0f, \h0f, \h0f, \h61, \h13, \h88, \hf2, \h60, \h10, \h60, \hf0,
                    \hf3>>,
         input |-> <<>>, gas |-> gas,
         static |-> FALSE, releases |-> FALSE,
         expect |-> [gasLeft |-> gas - (verylow * 12 + mstore_size + call_nrg - call_refund + zero),
                    callInputSize |-> 16,
                    callDepth |-> 1,
                    callKind |-> 2,
                    callFlags |-> 0,
                    callGasBelowBudget |-> TRUE,
                    callAddress |-> <<\h0f, \h0f, \h0f, \h0f, \h0f, \h0f, \h0f, \h0f, \h0f, \h0f, \h0f, \h0f, \h0f, \h0f, \h0f, \h0f, \h0f, \h0f,
                                     \h0f, \h0f, \h0f, \h0f, \h0f, \h0f, \h0f, \h0f, \h0f, \h0f, \h0f, \h0f, \h0f, \h0f>>,
                    callCaller |-> "address",
                    callValue |-> <<\h00, \h00, \h00, \h00, \h00, \h00, \h00, \h00, \h00, \h00, \h00, \h00, \h00, \h00, \h00, \h11>>]]

\* testCALLCODEACCTEXISTS, lines 4717-4784.
testCALLCODEACCTEXISTS ==
    LET gas == 200000
        words == (\he0 + 16 + 31) \div 32
        mstore_size == words * 1 + (words * words) \div 512 + 1
        call_nrg == gcall + 5000
        call_refund == 5000
    IN  [code |-> <<\h6f, \h00, \h11, \h22, \h33, \h44, \h55, \h66, \h77, \h88, \h99, \h00, \h11, \h22, \h33, \h44, \h55, \h60,
                    \he0, \h52, \h60, \h10, \h60, \hf0, \h60, \h10, \h60, \he0, \h60, \h00, \h6f, \h0f, \h0f, \h0f, \h0f, \h0f,
                    \h0f, \h0f, \h0f, \h0f, \h0f, \h0f, \h0f, \h0f, \h0f, \h0f, \h0f, \h6f, \h0f, \h0f, \h0f, \h0f, \h0f, \h0f,
                    \h0f, \h0f, \h0f, \h0f, \h0f, \h0f, \h0f, \h0f, \h0f, \h0f, \h61, \h13, \h88, \hf2, \h60, \h10, \h60, \hf0,
                    \hf3>>,
         input |-> <<>>, gas |-> gas,
         static |-> FALSE, releases |-> FALSE,
         expect |-> [gasLeft |-> gas - (verylow * 12 + mstore_size + call_nrg - call_refund + zero),
                    callInputSize |-> 16,
                    callDepth |-> 1,
                    callKind |-> 2,
                    callFlags |-> 0,
                    callGasBelowBudget |-> TRUE,
                    callAddress |-> <<\h0f, \h0f, \h0f, \h0f, \h0f, \h0f, \h0f, \h0f, \h0f, \h0f, \h0f, \h0f, \h0f, \h0f, \h0f, \h0f, \h0f, \h0f,
                                     \h0f, \h0f, \h0f, \h0f, \h0f, \h0f, \h0f, \h0f, \h0f, \h0f, \h0f, \h0f, \h0f, \h0f>>,
                    callCaller |-> "address",
                    callValue |-> <<\h00, \h00, \h00, \h00, \h00, \h00, \h00, \h00, \h00, \h00, \h00, \h00, \h00, \h00, \h00, \h00>>]]

\* testDELEGATECALL, lines 4786-4845.
testDELEGATECALL ==
    LET gas == 200000
        words == (\he0 + 16 + 31) \div 32
        mstore_size == words * 1 + (words * words) \div 512 + 1
        call_nrg == gcall + 5000
        call_refund == 5000
    IN  [code |-> <<\h6f, \h00, \h11, \h22, \h33, \h44, \h55, \h66, \h77, \h88, \h99, \h00, \h11, \h22, \h33, \h44, \h55, \h60,
                    \he0, \h52, \h60, \h10, \h60, \hf0, \h60, \h10, \h60, \he0, \h6f, \h0f, \h10, \h11, \h12, \h13, \h14, \h15,
                    \h16, \h17, \h18, \h19, \h1a, \h1b, \h1c, \h1d, \h1e, \h6f, \h01, \h00, \h01, \h02, \h03, \h04, \h05, \h06,
                    \h07, \h08, \h09, \h0a, \h0b, \h0c, \h0d, \h0e, \h61, \h13, \h88, \hf4, \h60, \h10, \h60, \hf0, \hf3>>,
         input |-> <<>>, gas |-> gas,
         static |-> FALSE, releases |-> FALSE,
         expect |-> [gasLeft |-> gas - (verylow * 11 + mstore_size + call_nrg - call_refund + zero),
                    callInputSize |-> 16,
                    callDepth |-> 1,
                    callKind |-> 1,
                    callFlags |-> 0,
                    callGasBelowBudget |-> TRUE,
                    callAddress |-> <<\h01, \h00, \h01, \h02, \h03, \h04, \h05, \h06, \h07, \h08, \h09, \h0a, \h0b, \h0c, \h0d, \h0e, \h0f, \h10,
                                     \h11, \h12, \h13, \h14, \h15, \h16, \h17, \h18, \h19, \h1a, \h1b, \h1c, \h1d, \h1e>>,
                    callCaller |-> "caller",
                    callValue |-> <<\h00, \h00, \h00, \h00, \h00, \h00, \h00, \h00, \h00, \h00, \h00, \h01, \h00, \h00, \h00, \h00>>]]

\* testDELEGATECALLACCTANDVALEXISTS, lines 4847-4901.
testDELEGATECALLACCTANDVALEXISTS ==
    LET gas == 200000
        words == (\he0 + 16 + 31) \div 32
        mstore_size == words * 1 + (words * words) \div 512 + 1
        call_nrg == gcall + 5000
        call_refund == 5000
    IN  [code |-> <<\h6f, \h00, \h11, \h22, \h33, \h44, \h55, \h66, \h77, \h88, \h99, \h00, \h11, \h22, \h33, \h44, \h55, \h60,
                    \he0, \h52, \h60, \h10, \h60, \hf0, \h60, \h10, \h60, \he0, \h60, \h11, \h6f, \h0f, \h0f, \h0f, \h0f, \h0f,
                    \h0f, \h0f, \h0f, \h0f, \h0f, \h0f, \h0f, \h0f, \h0f, \h0f, \h0f, \h6f, \h0f, \h0f, \h0f, \h0f, \h0f, \h0f,
                    \h0f, \h0f, \h0f, \h0f, \h0f, \h0f, \h0f, \h0f, \h0f, \h0f, \h61, \h13, \h88, \hf4, \h60, \h10, \h60, \hf0,
                    \hf3>>,
         input |-> <<>>, gas |-> gas,
         static |-> FALSE, releases |-> FALSE,
         expect |-> [gasLeft |-> gas - (verylow * 12 + mstore_size + call_nrg - call_refund + zero),
                    callDepth |-> 1,
                    callKind |-> 1,
                    callFlags |-> 0,
                    callGasBelowBudget |-> TRUE,
                    callAddress |-> <<\h0f, \h0f, \h0f, \h0f, \h0f, \h0f, \h0f, \h0f, \h0f, \h0f, \h0f, \h0f, \h0f, \h0f, \h0f, \h0f, \h0f, \h0f,
                                     \h0f, \h0f, \h0f, \h0f, \h0f, \h0f, \h0f, \h0f, \h0f, \h0f, \h0f, \h0f, \h0f, \h0f>>,
                    callCaller |-> "caller",
                    callValue |-> <<\h00, \h00, \h00, \h00, \h00, \h00, \h00, \h00, \h00, \h00, \h00, \h01, \h00, \h00, \h00, \h00>>]]

\* testDELEGATECALLACCTEXISTS, lines 4903-4957.
testDELEGATECALLACCTEXISTS ==
    LET gas == 200000
        words == (\he0 + 16 + 31) \div 32
        mstore_size == words * 1 + (words * words) \div 512 + 1
        call_nrg == gcall + 5000
        call_refund == 5000
    IN  [code |-> <<\h6f, \h00, \h11, \h22, \h33, \h44, \h55, \h66, \h77, \h88, \h99, \h00, \h11, \h22, \h33, \h44, \h55, \h60,
                    \he0, \h52, \h60, \h10, \h60, \hf0, \h60, \h10, \h60, \he0, \h60, \h00, \h6f, \h0f, \h0f, \h0f, \h0f, \h0f,
                    \h0f, \h0f, \h0f, \h0f, \h0f, \h0f, \h0f, \h0f, \h0f, \h0f, \h0f, \h6f, \h0f, \h0f, \h0f, \h0f, \h0f, \h0f,
                    \h0f, \h0f, \h0f, \h0f, \h0f, \h0f, \h0f, \h0f, \h0f, \h0f, \h61, \h13, \h88, \hf4, \h60, \h10, \h60, \hf0,
                    \hf3>>,
         input |-> <<>>, gas |-> gas,
         static |-> FALSE, releases |-> FALSE,
         expect |-> [gasLeft |-> gas - (verylow * 12 + mstore_size + call_nrg - call_refund + zero),
                    callDepth |-> 1,
                    callKind |-> 1,
                    callFlags |-> 0,
                    callGasBelowBudget |-> TRUE,
                    callAddress |-> <<\h0f, \h0f, \h0f, \h0f, \h0f, \h0f, \h0f, \h0f, \h0f, \h0f, \h0f, \h0f, \h0f, \h0f, \h0f, \h0f, \h0f, \h0f,
                                     \h0f, \h0f, \h0f, \h0f, \h0f, \h0f, \h0f, \h0f, \h0f, \h0f, \h0f, \h0f, \h0f, \h0f>>,
                    callCaller |-> "caller",
                    callValue |-> <<\h00, \h00, \h00, \h00, \h00, \h00, \h00, \h00, \h00, \h00, \h00, \h01, \h00, \h00, \h00, \h00>>]]

\* testINVALID, lines 4959-4973.
testINVALID ==
    LET gas == 20000
    IN  [code |-> <<\hfe>>,
         input |-> <<>>, gas |-> gas,
         static |-> FALSE, releases |-> FALSE,
         expect |-> [gasLeft |-> 0]]

\* testINVALIDRETURN, lines 4975-4992.
testINVALIDRETURN ==
    LET gas == 20000
    IN  [code |-> <<\h6f, \hff, \hff, \hff, \hff, \hff, \hff, \hff, \hff, \hff, \hff, \hff, \hff, \hff, \hff, \hff, \hff, \hfe,
                    \hf3>>,
         input |-> <<>>, gas |-> gas,
         static |-> FALSE, releases |-> FALSE,
         expect |-> [gasLeft |-> 0]]

\* testINVALIDCREATE, lines 4994-5016.
testINVALIDCREATE ==
    LET gas == 20000
    IN  [code |-> <<\h6f, \h00, \h11, \h22, \h33, \h44, \h55, \h66, \h77, \h88, \h99, \h00, \h11, \h22, \h33, \h44, \h55, \h60,
                    \he0, \h52, \h60, \h10, \h60, \he0, \h60, \h05, \hf0, \hfe>>,
         input |-> <<>>, gas |-> gas,
         static |-> FALSE, releases |-> FALSE,
         expect |-> [gasLeft |-> 0]]

\* testSELFDESTRUCT, lines 5018-5044.
testSELFDESTRUCT ==
    LET gas == 20000
    IN  [code |-> <<\h6f, \h0f, \h10, \h11, \h12, \h13, \h14, \h15, \h16, \h17, \h18, \h19, \h1a, \h1b, \h1c, \h1d, \h1e, \h6f,
                    \h01, \h00, \h01, \h02, \h03, \h04, \h05, \h06, \h07, \h08, \h09, \h0a, \h0b, \h0c, \h0d, \h0e, \hff>>,
         input |-> <<>>, gas |-> gas,
         static |-> FALSE, releases |-> FALSE,
         expect |-> [gasLeft |-> gas - (verylow * 2 + suicide),
                    destructAddr |-> "address",
                    destructBene |-> <<\h01, \h00, \h01, \h02, \h03, \h04, \h05, \h06, \h07, \h08, \h09, \h0a, \h0b, \h0c, \h0d, \h0e, \h0f, \h10,
                                      \h11, \h12, \h13, \h14, \h15, \h16, \h17, \h18, \h19, \h1a, \h1b, \h1c, \h1d, \h1e>>]]

\* testSELFDESTRUCTMAX, lines 5046-5072.
testSELFDESTRUCTMAX ==
    LET gas == 20000
    IN  [code |-> <<\h6f, \hff, \hff, \hff, \hff, \hff, \hff, \hff, \hff, \hff, \hff, \hff, \hff, \hff, \hff, \hff, \hff, \h6f,
                    \hff, \hff, \hff, \hff, \hff, \hff, \hff, \hff, \hff, \hff, \hff, \hff, \hff, \hff, \hff, \hff, \hff>>,
         input |-> <<>>, gas |-> gas,
         static |-> FALSE, releases |-> FALSE,
         expect |-> [gasLeft |-> gas - (verylow * 2 + suicide),
                    destructAddr |-> "address",
                    destructBene |-> <<\hff, \hff, \hff, \hff, \hff, \hff, \hff, \hff, \hff, \hff, \hff, \hff, \hff, \hff, \hff, \hff, \hff, \hff,
                                      \hff, \hff, \hff, \hff, \hff, \hff, \hff, \hff, \hff, \hff, \hff, \hff, \hff, \hff>>]]

\* testRETURNDATASIZE, lines 5074-5121.
testRETURNDATASIZE ==
    LET gas == 200000
        words == (\he0 + 16 + 31) \div 32
        mstore_size == words * 1 + (words * words) \div 512 + 1
        extra_mstore == 1
        call_nrg == callvalue + gcall + 5000
        call_refund == 5000 + callstipend
    IN  [code |-> <<\h6f, \h00, \h11, \h22, \h33, \h44, \h55, \h66, \h77, \h88, \h99, \h00, \h11, \h22, \h33, \h44, \h55, \h60,
                    \he0, \h52, \h60, \h10, \h60, \hf0, \h60, \h10, \h60, \he0, \h60, \h05, \h6f, \h11, \h22, \h33, \h44, \h55,
                    \h66, \h77, \h88, \h11, \h22, \h33, \h44, \h55, \h66, \h77, \h88, \h6f, \h00, \h00, \h00, \h00, \h00, \h00,
                    \h00, \h00, \h00, \h00, \h00, \h00, \h11, \h22, \h33, \h44, \h61, \h13, \h88, \hf1, \h3d, \h60, \he0, \h52,
                    \h60, \h10, \h60, \he0, \hf3>>,
         input |-> <<>>, gas |-> gas,
         static |-> FALSE, releases |-> FALSE,
         expect |-> [gasLeft |-> gas - (verylow * 13 + mstore_size + call_nrg - call_refund + extra_mstore * 2 + zero)]]

\* testRETURNDATASIZECREATE, lines 5123-5160.
testRETURNDATASIZECREATE ==
    LET gas == 2000000
        words == (\he0 + 16 + 31) \div 32
        mstore_size == words * 1 + (words * words) \div 512 + 1
        extra_mstore == 1
    IN  [code |-> <<\h6f, \h00, \h11, \h22, \h33, \h44, \h55, \h66, \h77, \h88, \h99, \h00, \h11, \h22, \h33, \h44, \h55, \h60,
                    \he0, \h52, \h60, \h10, \h60, \he0, \h60, \h05, \hf0, \h3d, \h60, \he0, \h52, \h60, \h10, \h60, \he0, \hf3>>,
         input |-> <<>>, gas |-> gas,
         static |-> FALSE, releases |-> FALSE,
         expect |-> [gasLeft |-> gas - (verylow * 8 + mstore_size + create + extra_mstore * 2 + zero)]]

\* testRETURNDATASIZESSTORE, lines 5162-5201.
testRETURNDATASIZESSTORE ==
    LET gas == 200000
        words == (\he0 + 16 + 31) \div 32
        mstore_size == words * 1 + (words * words) \div 512 + 1
        extra_mstore == 1
    IN  [code |-> <<\h6f, \h00, \h11, \h22, \h33, \h44, \h55, \h66, \h77, \h88, \h99, \h00, \h11, \h22, \h33, \h44, \h55, \h60,
                    \he0, \h52, \h6f, \h00, \h11, \h22, \h33, \h44, \h55, \h66, \h77, \h88, \h99, \h00, \h11, \h22, \h33, \h44,
                    \h55, \h6f, \h00, \h11, \h22, \h33, \h44, \h55, \h66, \h77, \h88, \h99, \h00, \h11, \h22, \h33, \h44, \h55,
                    \h60, \h22, \h55, \h3d, \h60, \he0, \h52, \h60, \h10, \h60, \he0, \hf3>>,
         input |-> <<>>, gas |-> gas,
         static |-> FALSE, releases |-> FALSE,
         expect |-> [gasLeft |-> gas - (verylow * 8 + mstore_size + sset + extra_mstore * 2 + zero)]]

\* testRETURNDATACOPY, lines 5203-5245.
testRETURNDATACOPY ==
    LET gas == 200000
        words == (\he0 + 16 + 31) \div 32
        mstore_size == words * 1 + (words * words) \div 512 + 1
        call_nrg == callvalue + gcall + 5000
        call_refund == 5000 + callstipend
    IN  [code |-> <<\h6f, \h00, \h11, \h22, \h33, \h44, \h55, \h66, \h77, \h88, \h99, \h00, \h11, \h22, \h33, \h44, \h55, \h60,
                    \he0, \h52, \h60, \h10, \h60, \hf0, \h60, \h10, \h60, \he0, \h60, \h05, \h6f, \h11, \h22, \h33, \h44, \h55,
                    \h66, \h77, \h88, \h11, \h22, \h33, \h44, \h55, \h66, \h77, \h88, \h6f, \h00, \h00, \h00, \h00, \h00, \h00,
                    \h00, \h00, \h00, \h00, \h00, \h00, \h11, \h22, \h33, \h44, \h61, \h13, \h88, \hf1, \h60, \h01, \h60, \h02,
                    \h60, \he0, \h3e, \h60, \h01, \h60, \he0, \hf3>>,
         input |-> <<>>, gas |-> gas,
         static |-> FALSE, releases |-> FALSE,
         expect |-> [gasLeft |-> gas - (verylow * 15 + verylow + gcopy * ((\h01 + 31) \div 32) + mstore_size + call_nrg - call_refund + zero)]]

\* testRETURNDATACOPY_beyondRange1, lines 5248-5285.
testRETURNDATACOPY_beyondRange1 ==
    LET gas == 200000
    IN  [code |-> <<\h6f, \h00, \h11, \h22, \h33, \h44, \h55, \h66, \h77, \h88, \h99, \h00, \h11, \h22, \h33, \h44, \h55, \h60,
                    \he0, \h52, \h60, \h10, \h60, \hf0, \h60, \h10, \h60, \he0, \h60, \h05, \h6f, \h11, \h22, \h33, \h44, \h55,
                    \h66, \h77, \h88, \h11, \h22, \h33, \h44, \h55, \h66, \h77, \h88, \h6f, \h00, \h00, \h00, \h00, \h00, \h00,
                    \h00, \h00, \h00, \h00, \h00, \h00, \h11, \h22, \h33, \h44, \h61, \h13, \h88, \hf1, \h61, \hff, \hff, \h60,
                    \h02, \h60, \he0, \h3e, \h60, \h01, \h60, \he0, \hf3>>,
         input |-> <<>>, gas |-> gas,
         static |-> FALSE, releases |-> FALSE,
         expect |-> [gasLeft |-> 0]]

\* testRETURNDATACOPY_beyondRange2, lines 5287-5324.
testRETURNDATACOPY_beyondRange2 ==
    LET gas == 200000
    IN  [code |-> <<\h6f, \h00, \h11, \h22, \h33, \h44, \h55, \h66, \h77, \h88, \h99, \h00, \h11, \h22, \h33, \h44, \h55, \h60,
                    \he0, \h52, \h60, \h10, \h60, \hf0, \h60, \h10, \h60, \he0, \h60, \h05, \h6f, \h11, \h22, \h33, \h44, \h55,
                    \h66, \h77, \h88, \h11, \h22, \h33, \h44, \h55, \h66, \h77, \h88, \h6f, \h00, \h00, \h00, \h00, \h00, \h00,
                    \h00, \h00, \h00, \h00, \h00, \h00, \h11, \h22, \h33, \h44, \h61, \h13, \h88, \hf1, \h60, \h01, \h61, \hff,
                    \hff, \h60, \he0, \h3e, \h60, \h01, \h60, \he0, \hf3>>,
         input |-> <<>>, gas |-> gas,
         static |-> FALSE, releases |-> FALSE,
         expect |-> [gasLeft |-> 0]]

\* testSTATICCALL, lines 5326-5344.
testSTATICCALL ==
    LET gas == 20000 * 2
    IN  [code |-> <<\h6f, \h00, \h11, \h22, \h33, \h44, \h55, \h66, \h77, \h88, \h99, \h00, \h11, \h22, \h33, \h44, \h55, \h60,
                    \h22, \h55>>,
         input |-> <<>>, gas |-> gas,
         static |-> TRUE, releases |-> FALSE,
         expect |-> [gasLeft |-> 0,
                    notSuccess |-> TRUE]]

\* testRevertExhaustedGas, lines 5350-5372.
testRevertExhaustedGas ==
    LET gas == 15
    IN  [code |-> <<\h6f, \h00, \h11, \h22, \h33, \h44, \h55, \h66, \h77, \h88, \h99, \h00, \h11, \h22, \h33, \h44, \h55, \h60,
                    \h02, \h01, \h60, \he0, \h52, \h60, \h01, \h60, \he0, \hfd>>,
         input |-> <<>>, gas |-> gas,
         static |-> FALSE, releases |-> TRUE,
         expect |-> [gasLeft |-> 0]]

\* testRevertNotExhaustedGas, lines 5374-5401.
testRevertNotExhaustedGas ==
    LET gas == 17
        words == (\he0 + 16 + 31) \div 32
        mstore_size == words * 1 + (words * words) \div 512 + 1
    IN  [code |-> <<\h6f, \h00, \h11, \h22, \h33, \h44, \h55, \h66, \h77, \h88, \h99, \h00, \h11, \h22, \h33, \h44, \h55, \h60,
                    \h02, \h01, \h60, \he0, \h52, \h60, \h01, \h60, \he0, \hfd>>,
         input |-> <<>>, gas |-> gas,
         static |-> FALSE, releases |-> TRUE,
         expect |-> [gasLeft |-> gas - (verylow * 6 + mstore_size)]]

\* testRevertStackUnderflow, lines 5403-5422.
testRevertStackUnderflow ==
    LET gas == 20000
    IN  [code |-> <<\h60, \h01, \h60, \he0, \h52, \h60, \he0, \hfd>>,
         input |-> <<>>, gas |-> gas,
         static |-> FALSE, releases |-> TRUE,
         expect |-> [gasLeft |-> 0]]

\* testRevertRemainingGas, lines 5424-5450.
testRevertRemainingGas ==
    LET gas == 20000
        words == (\he0 + 16 + 31) \div 32
        mstore_size == words * 1 + (words * words) \div 512 + 1
    IN  [code |-> <<\h6f, \hff, \hff, \hff, \hff, \hff, \hff, \hff, \hff, \hff, \hff, \hff, \hff, \hff, \hff, \hff, \hff, \h60,
                    \he0, \h52, \h60, \h01, \h60, \he0, \hfd>>,
         input |-> <<>>, gas |-> gas,
         static |-> FALSE, releases |-> TRUE,
         expect |-> [gasLeft |-> gas - (verylow * 4 + mstore_size)]]

\* testRevertCreate, lines 5452-5486.
testRevertCreate ==
    LET gas == 2000000
    IN  [code |-> <<\h6f, \h00, \h11, \h22, \h33, \h44, \h55, \h66, \h77, \h88, \h99, \h00, \h11, \h22, \h33, \hfd, \h44, \h60,
                    \he0, \h52, \h60, \h10, \h60, \he0, \hf0, \h05, \hf0, \h60, \he0, \h52, \h60, \hf0, \h52, \h60, \h20, \h60,
                    \he0, \hf3>>,
         input |-> <<>>, gas |-> gas,
         static |-> FALSE, releases |-> TRUE,
         expect |-> [gasLeft |-> 0,
                    after |-> [callDepth |-> 0, callFlags |-> 0]]]

\* testRevertCall, lines 5488-5537.
testRevertCall ==
    LET gas == 200000
        words == (\he0 + 16 + 31) \div 32
        mstore_size == words * 1 + (words * words) \div 512 + 1
        extra_mstore == 1
        call_nrg == callvalue + gcall + 5000
        call_refund == 5000 + callstipend
    IN  [code |-> <<\h6f, \h00, \h11, \h22, \h33, \h44, \h55, \h66, \h77, \h88, \h99, \h00, \h11, \h22, \h33, \hfd, \h44, \h60,
                    \he0, \h52, \h60, \h10, \h60, \hf0, \h60, \h10, \h60, \he0, \h60, \h05, \h6f, \h11, \h22, \h33, \h44, \h55,
                    \h66, \h77, \h88, \h11, \h22, \h33, \h44, \h55, \h66, \h77, \h88, \h6f, \h00, \h00, \h00, \h00, \h00, \h00,
                    \h00, \h00, \h00, \h00, \h00, \h00, \h11, \h22, \h33, \h44, \h61, \h13, \h88, \hf1, \h60, \he0, \h52, \h60,
                    \h20, \h60, \he0, \hf3>>,
         input |-> <<>>, gas |-> gas,
         static |-> FALSE, releases |-> TRUE,
         expect |-> [gasLeft |-> gas - (verylow * 13 + mstore_size + extra_mstore * 1 + call_nrg - call_refund + zero),
                    after |-> [callDepth |-> 0, callFlags |-> 0]]]

\* testVMBench, lines 5569-5623.
testVMBench ==
    LET gas == 200000
    IN  [code |-> <<\h60, \h00, \h5b, \h80, \h61, \h04, \h00, \h10, \h60, \h19, \h57, \h80, \h60, \he0, \h51, \h01, \h60, \he0,
                    \h52, \h60, \h01, \h01, \h60, \h02, \h56, \h5b, \h60, \h10, \h60, \he0, \hf3>>,
         input |-> <<>>, gas |-> gas,
         static |-> FALSE, releases |-> FALSE,
         expect |-> [none |-> TRUE]]

\* Every test, by name, in the order main.cpp defines them (gtest runs
\* the "instructions" tests, then the "misc" ones, which follow them).
TestNames == <<"testSTOP", "testSTOPCREATE", "testSTOPCALL", "testADD",
              "testADD2", "testADDZERO", "testMUL", "testMULZERO",
              "testSUB", "testSUBNEG", "testDIV", "testDIVZERO",
              "testSDIV", "testSDIVZERO", "testSDIVNEG", "testMOD",
              "testMODZERO", "testSMOD", "testSMODZERO", "testADDMOD",
              "testADDMODZERO", "testADDMOD_fromCallData", "testMULMOD", "testMULMODZERO",
              "testEXP", "testEXPZERO", "testEXPZEROBASE", "testSIGNEXTEND",
              "testSIGNEXTEND2", "testLT", "testLTFALSE", "testGT",
              "testGTFALSE", "testSLT", "testSLTFALSE", "testSGT",
              "testSGTFALSE", "testEQ", "testNOTEQ", "testISZERO",
              "testNOTISZERO", "testAND", "testANDMAX", "testOR",
              "testORMAX", "testXOR", "testXORMAX", "testNOT",
              "testBYTE", "testSHA3", "testADDRESS", "testBALANCE",
              "testNOTBALANCE", "testORIGIN", "testCALLER", "testCALLVALUE",
              "testCALLVALUEPUSH", "testCALLDATALOAD", "testCALLDATALOADPUSHMAX", "testCALLDATALOADCREATE",
              "testCALLDATASIZE", "testCALLDATACOPY", "testCALLDATACOPYCREATE", "testCALLDATACOPYZERO",
              "testCODESIZE", "testCODESIZE2", "testCODESIZEEMPTY", "testCODECOPY",
              "testCODECOPY2", "testGASPRICE", "testEXTCODESIZE", "testEXTCODESIZECREATE",
              "testEXTCODESIZEMAX", "testEXTCODECOPY", "testEXTCODECOPY2", "testBLOCKHASH",
              "testBLOCKHASHMAX", "testBLOCKHASHZERO", "testCOINBASE", "testTIMESTAMP",
              "testNUMBER", "testDIFFICULTY", "testGASLIMIT", "testPOP",
              "testPOPONE", "testMLOAD", "testMLOADEMPTY", "testMLOAD_MSTORE",
              "testMSTORE8", "testMSTORE8JUMP", "testMSTORE8ADD", "testSLOAD",
              "testSLOAD_SSTORE", "testSSTORE", "testSSTORESRESET", "testJUMP",
              "testJUMPI", "testJUMPI2", "testPC", "testPCZERO",
              "testPCJUMP", "testPCMSTORE", "testPCPUSH", "testPCSELFDESTRUCT",
              "testPCCREATE", "testMSIZE", "testMSIZEEMPTY", "testMSIZESTOREMULTIPLE",
              "testGAS", "testGASPUSH", "testGASMSTORE", "testGASJUMP",
              "testPUSH20", "testPUSH32", "testDUP1", "testDUP10",
              "testDUP16", "testSWAP1", "testSWAP2", "testSWAP10",
              "testSWAP16", "testSWAPPUSHMAX", "testSWAPCREATE", "testLOG0",
              "testLOG1", "testLOG2", "testLOG3", "testLOG4",
              "testCREATE", "testCALL", "testCALLACCTANDVALEXISTS", "testCALLACCTEXISTS",
              "testCALLCODE", "testCALLCODEACCTANDVALEXISTS", "testCALLCODEACCTEXISTS", "testDELEGATECALL",
              "testDELEGATECALLACCTANDVALEXISTS", "testDELEGATECALLACCTEXISTS", "testINVALID", "testINVALIDRETURN",
              "testINVALIDCREATE", "testSELFDESTRUCT", "testSELFDESTRUCTMAX", "testRETURNDATASIZE",
              "testRETURNDATASIZECREATE", "testRETURNDATASIZESSTORE", "testRETURNDATACOPY", "testRETURNDATACOPY_beyondRange1",
              "testRETURNDATACOPY_beyondRange2", "testSTATICCALL", "testRevertExhaustedGas", "testRevertNotExhaustedGas",
              "testRevertStackUnderflow", "testRevertRemainingGas", "testRevertCreate", "testRevertCall",
              "testVMBench">>

TestData == [testSTOP |-> testSTOP,
             testSTOPCREATE |-> testSTOPCREATE,
             testSTOPCALL |-> testSTOPCALL,
             testADD |-> testADD,
             testADD2 |-> testADD2,
             testADDZERO |-> testADDZERO,
             testMUL |-> testMUL,
             testMULZERO |-> testMULZERO,
             testSUB |-> testSUB,
             testSUBNEG |-> testSUBNEG,
             testDIV |-> testDIV,
             testDIVZERO |-> testDIVZERO,
             testSDIV |-> testSDIV,
             testSDIVZERO |-> testSDIVZERO,
             testSDIVNEG |-> testSDIVNEG,
             testMOD |-> testMOD,
             testMODZERO |-> testMODZERO,
             testSMOD |-> testSMOD,
             testSMODZERO |-> testSMODZERO,
             testADDMOD |-> testADDMOD,
             testADDMODZERO |-> testADDMODZERO,
             testADDMOD_fromCallData |-> testADDMOD_fromCallData,
             testMULMOD |-> testMULMOD,
             testMULMODZERO |-> testMULMODZERO,
             testEXP |-> testEXP,
             testEXPZERO |-> testEXPZERO,
             testEXPZEROBASE |-> testEXPZEROBASE,
             testSIGNEXTEND |-> testSIGNEXTEND,
             testSIGNEXTEND2 |-> testSIGNEXTEND2,
             testLT |-> testLT,
             testLTFALSE |-> testLTFALSE,
             testGT |-> testGT,
             testGTFALSE |-> testGTFALSE,
             testSLT |-> testSLT,
             testSLTFALSE |-> testSLTFALSE,
             testSGT |-> testSGT,
             testSGTFALSE |-> testSGTFALSE,
             testEQ |-> testEQ,
             testNOTEQ |-> testNOTEQ,
             testISZERO |-> testISZERO,
             testNOTISZERO |-> testNOTISZERO,
             testAND |-> testAND,
             testANDMAX |-> testANDMAX,
             testOR |-> testOR,
             testORMAX |-> testORMAX,
             testXOR |-> testXOR,
             testXORMAX |-> testXORMAX,
             testNOT |-> testNOT,
             testBYTE |-> testBYTE,
             testSHA3 |-> testSHA3,
             testADDRESS |-> testADDRESS,
             testBALANCE |-> testBALANCE,
             testNOTBALANCE |-> testNOTBALANCE,
             testORIGIN |-> testORIGIN,
             testCALLER |-> testCALLER,
             testCALLVALUE |-> testCALLVALUE,
             testCALLVALUEPUSH |-> testCALLVALUEPUSH,
             testCALLDATALOAD |-> testCALLDATALOAD,
             testCALLDATALOADPUSHMAX |-> testCALLDATALOADPUSHMAX,
             testCALLDATALOADCREATE |-> testCALLDATALOADCREATE,
             testCALLDATASIZE |-> testCALLDATASIZE,
             testCALLDATACOPY |-> testCALLDATACOPY,
             testCALLDATACOPYCREATE |-> testCALLDATACOPYCREATE,
             testCALLDATACOPYZERO |-> testCALLDATACOPYZERO,
             testCODESIZE |-> testCODESIZE,
             testCODESIZE2 |-> testCODESIZE2,
             testCODESIZEEMPTY |-> testCODESIZEEMPTY,
             testCODECOPY |-> testCODECOPY,
             testCODECOPY2 |-> testCODECOPY2,
             testGASPRICE |-> testGASPRICE,
             testEXTCODESIZE |-> testEXTCODESIZE,
             testEXTCODESIZECREATE |-> testEXTCODESIZECREATE,
             testEXTCODESIZEMAX |-> testEXTCODESIZEMAX,
             testEXTCODECOPY |-> testEXTCODECOPY,
             testEXTCODECOPY2 |-> testEXTCODECOPY2,
             testBLOCKHASH |-> testBLOCKHASH,
             testBLOCKHASHMAX |-> testBLOCKHASHMAX,
             testBLOCKHASHZERO |-> testBLOCKHASHZERO,
             testCOINBASE |-> testCOINBASE,
             testTIMESTAMP |-> testTIMESTAMP,
             testNUMBER |-> testNUMBER,
             testDIFFICULTY |-> testDIFFICULTY,
             testGASLIMIT |-> testGASLIMIT,
             testPOP |-> testPOP,
             testPOPONE |-> testPOPONE,
             testMLOAD |-> testMLOAD,
             testMLOADEMPTY |-> testMLOADEMPTY,
             testMLOAD_MSTORE |-> testMLOAD_MSTORE,
             testMSTORE8 |-> testMSTORE8,
             testMSTORE8JUMP |-> testMSTORE8JUMP,
             testMSTORE8ADD |-> testMSTORE8ADD,
             testSLOAD |-> testSLOAD,
             testSLOAD_SSTORE |-> testSLOAD_SSTORE,
             testSSTORE |-> testSSTORE,
             testSSTORESRESET |-> testSSTORESRESET,
             testJUMP |-> testJUMP,
             testJUMPI |-> testJUMPI,
             testJUMPI2 |-> testJUMPI2,
             testPC |-> testPC,
             testPCZERO |-> testPCZERO,
             testPCJUMP |-> testPCJUMP,
             testPCMSTORE |-> testPCMSTORE,
             testPCPUSH |-> testPCPUSH,
             testPCSELFDESTRUCT |-> testPCSELFDESTRUCT,
             testPCCREATE |-> testPCCREATE,
             testMSIZE |-> testMSIZE,
             testMSIZEEMPTY |-> testMSIZEEMPTY,
             testMSIZESTOREMULTIPLE |-> testMSIZESTOREMULTIPLE,
             testGAS |-> testGAS,
             testGASPUSH |-> testGASPUSH,
             testGASMSTORE |-> testGASMSTORE,
             testGASJUMP |-> testGASJUMP,
             testPUSH20 |-> testPUSH20,
             testPUSH32 |-> testPUSH32,
             testDUP1 |-> testDUP1,
             testDUP10 |-> testDUP10,
             testDUP16 |-> testDUP16,
             testSWAP1 |-> testSWAP1,
             testSWAP2 |-> testSWAP2,
             testSWAP10 |-> testSWAP10,
             testSWAP16 |-> testSWAP16,
             testSWAPPUSHMAX |-> testSWAPPUSHMAX,
             testSWAPCREATE |-> testSWAPCREATE,
             testLOG0 |-> testLOG0,
             testLOG1 |-> testLOG1,
             testLOG2 |-> testLOG2,
             testLOG3 |-> testLOG3,
             testLOG4 |-> testLOG4,
             testCREATE |-> testCREATE,
             testCALL |-> testCALL,
             testCALLACCTANDVALEXISTS |-> testCALLACCTANDVALEXISTS,
             testCALLACCTEXISTS |-> testCALLACCTEXISTS,
             testCALLCODE |-> testCALLCODE,
             testCALLCODEACCTANDVALEXISTS |-> testCALLCODEACCTANDVALEXISTS,
             testCALLCODEACCTEXISTS |-> testCALLCODEACCTEXISTS,
             testDELEGATECALL |-> testDELEGATECALL,
             testDELEGATECALLACCTANDVALEXISTS |-> testDELEGATECALLACCTANDVALEXISTS,
             testDELEGATECALLACCTEXISTS |-> testDELEGATECALLACCTEXISTS,
             testINVALID |-> testINVALID,
             testINVALIDRETURN |-> testINVALIDRETURN,
             testINVALIDCREATE |-> testINVALIDCREATE,
             testSELFDESTRUCT |-> testSELFDESTRUCT,
             testSELFDESTRUCTMAX |-> testSELFDESTRUCTMAX,
             testRETURNDATASIZE |-> testRETURNDATASIZE,
             testRETURNDATASIZECREATE |-> testRETURNDATASIZECREATE,
             testRETURNDATASIZESSTORE |-> testRETURNDATASIZESSTORE,
             testRETURNDATACOPY |-> testRETURNDATACOPY,
             testRETURNDATACOPY_beyondRange1 |-> testRETURNDATACOPY_beyondRange1,
             testRETURNDATACOPY_beyondRange2 |-> testRETURNDATACOPY_beyondRange2,
             testSTATICCALL |-> testSTATICCALL,
             testRevertExhaustedGas |-> testRevertExhaustedGas,
             testRevertNotExhaustedGas |-> testRevertNotExhaustedGas,
             testRevertStackUnderflow |-> testRevertStackUnderflow,
             testRevertRemainingGas |-> testRevertRemainingGas,
             testRevertCreate |-> testRevertCreate,
             testRevertCall |-> testRevertCall,
             testVMBench |-> testVMBench]
=============================================================================
