------------------------------ MODULE MockHost ------------------------------
(***************************************************************************)
(* The conformance suite's mock host (src/fastvm/tests/main.cpp): the     *)
(* globals its callbacks write, the callbacks the engine calls, and       *)
(* release_result, which a test calls to reset them.                       *)
(*                                                                         *)
(* storage[] is a 2^24-entry array indexed by three bytes of the key; the  *)
(* model keeps the entries ever written (an absent index holds the zero   *)
(* word). The log topics and data bytes and the call input's copy are not *)
(* kept: only their counts and sizes, which the tests assert.             *)
(***************************************************************************)
EXTENDS Integers, Sequences

VARIABLES
    storage,           \* storage[]: index -> word, the entries written
    logTopicsCount,    \* log_topics_count
    logDataSize,       \* log_data_size
    callMsg,           \* call_msg: the last message the call mock received
    selfDestructAddr,  \* self_destruct_addr: "address" once set, else "zero"
    selfDestructBene   \* self_destruct_bene: 32 bytes

mockVars == <<storage, logTopicsCount, logDataSize, callMsg, selfDestructAddr, selfDestructBene>>

Zeros(n) == [i \in 1..n |-> 0]

\* call_msg as memset to zero (EVM_CALL is 0 in evm.h's enum).
NoMsg == [kind |-> 0, depth |-> 0, flags |-> 0, address |-> Zeros(32), caller |-> "zero",
          value |-> Zeros(16), inputSize |-> 0, input14 |-> 0, gas |-> 0]

\* The globals as the program starts: zero-initialised (lines 56-88).
MockInit ==
    /\ storage = <<>>
    /\ logTopicsCount = 0
    /\ logDataSize = 0
    /\ callMsg = NoMsg
    /\ selfDestructAddr = "zero"
    /\ selfDestructBene = Zeros(32)

\* account_exists: an address whose byte 7 is 0x0f does not exist.
AccountExists(addr) == addr[8] # \h0f

\* The storage index get_storage and set_storage compute: key bytes 13-15.
Index(key) == (key[14] * 256 + key[15]) * 256 + key[16]
StoredAt(i) == IF i \in DOMAIN storage THEN storage[i] ELSE Zeros(16)

\* get_storage: the word at the key's index.
GetStorage(key) == StoredAt(Index(key))

\* A mutant of SetStorage that computes the index and drops the write.
SetStorageNoWrite(key, v) == UNCHANGED storage

\* set_storage: overwrite the word at the key's index.
SetStorage(key, v) ==
    storage' = [i \in DOMAIN storage \cup {Index(key)} |-> IF i = Index(key) THEN v ELSE storage[i]]

\* selfdestruct: record the contract and the beneficiary.
MockSelfDestruct(bene) ==
    /\ selfDestructAddr' = "address"
    /\ selfDestructBene' = bene
    /\ UNCHANGED <<storage, logTopicsCount, logDataSize, callMsg>>

\* call_output_addr and call_output (lines 84-85): the canned outputs.
CallOutputAddr == <<11, 0, 1, 2, 3, 4, 5, 6, 7, 8, 9, 10, 11, 12, 13, 14,
                    15, 16, 17, 18, 19, 20, 21, 22, 23, 24, 25, 26, 27, 28, 29, 30>>
CallOutput == <<\h00, \h11, \h22, \h33, \h44, \h55, \h66, \h77,
                \h88, \h99, \haa, \hbb, \hcc, \hdd, \hee, \hff>>

\* call: copy the message; REVERT when input byte 14 is 0xfd, read
\* whatever input_size is (a byte the engine model does not know, -1,
\* could be either), else SUCCESS; all the forwarded gas is left; the
\* output is call_output_addr (32 bytes) for CREATE, call_output (16)
\* otherwise.
CallResults(m) ==
    {[status |-> s, gasLeft |-> m.gas,
      output |-> IF m.kind = 3 THEN CallOutputAddr ELSE CallOutput] :
        s \in IF m.input14 = \hfd THEN {"revert"}
              ELSE IF m.input14 \in 0..255 THEN {"success"} ELSE {"revert", "success"}}
MockCall(m) ==
    /\ callMsg' = m
    /\ UNCHANGED <<storage, logTopicsCount, logDataSize, selfDestructAddr, selfDestructBene>>

\* log_topics[8]: the topic words the log mock can hold.
LogTopicsCapacity == 8

\* log: record the topic count (two words per topic) and the data size.
MockLog(n, size) ==
    /\ logTopicsCount' = n
    /\ logDataSize' = size
    /\ UNCHANGED <<storage, callMsg, selfDestructAddr, selfDestructBene>>

\* release_result (default reset_storage): clear storage, the log data
\* and its size, call_msg and the self-destruct addresses; not
\* log_topics_count. The engine's result is released first; the mock's
\* own results have no release function.
ReleaseResult ==
    /\ storage' = <<>>
    /\ logDataSize' = 0
    /\ callMsg' = NoMsg
    /\ selfDestructAddr' = "zero"
    /\ selfDestructBene' = Zeros(32)
    /\ UNCHANGED logTopicsCount
=============================================================================
