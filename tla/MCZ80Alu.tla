------------------------------ MODULE MCZ80Alu ------------------------------
(***************************************************************************)
(* The programs and operands for which TLC evaluates Z80Alu.               *)
(***************************************************************************)
EXTENDS Z80Alu

(* Both ends and the middle of each nibble, hence of each byte.             *)
Nibbles == {0, 1, 7, 8, 9, 15}
EdgeBytes == { 16 * h + l : h \in Nibbles, l \in Nibbles }
EdgeWords == { 256 * h + l : h \in {0, 1, 15, 16, 127, 128, 255}, l \in {0, 1, 127, 128, 255} }
WZWords   == { 256 * h + l : h \in {7, 40, 255}, l \in {0, 255} }
DecimalBytes == { v \in Byte : Decimal(v) }

NoC  == {"S", "Y", "H"}
WithC == {"C", "Z", "X", "N"}

Starts(progs, as, ms, hls, des, fs, bcs, bits) ==
  [prog : progs, a : as, m : ms, hl : hls, de : des, f : fs, bc : bcs, iff2 : {TRUE},
   bit : bits, d : {255}]

With(progs, as, ms, fs) == Starts(progs, as, ms, {0}, {0}, fs, {0}, {3})

Run(progs, as, ms) == With(progs, as, ms, {NoC, WithC})

MCInputs ==
  Run({<<"ADC">>, <<"SBC">>}, Byte, Byte)
    \cup With({<<"ADD">>, <<"SUB">>, <<"CP">>}, Byte, Byte, {WithC})
    \cup Run({<<"NEG">>}, Byte, {0})
    \cup Run({<<"ADD", "DAA">>, <<"ADC", "DAA">>, <<"SUB", "DAA">>, <<"SBC", "DAA">>},
             DecimalBytes, DecimalBytes)
    \cup Run({<<"INC">>, <<"DEC">>, <<"INC", "DEC">>, <<"RLC", "RRC">>, <<"RL", "RR">>,
              <<"SLL", "SRL">>, <<"SLA", "SRA">>,
              <<"RL", "RL", "RL", "RL", "RL", "RL", "RL", "RL", "RL">>}, {0}, Byte)
    \cup Run({<<"RLCA", "RRCA">>, <<"RLA", "RRA">>}, Byte, {0})
    \cup Run({<<"RLD", "RRD">>, <<"RLD", "RLD", "RLD">>}, EdgeBytes, Byte)
    \cup Run({ <<op, "SCF">> : op \in FlagSetters }
               \cup { <<"CP", op, "SCF">> : op \in {"NOP", "SET", "RES"} },
             EdgeBytes, EdgeBytes)
    \cup Starts({<<"ADDHL">>, <<"ADCHL">>, <<"SBCHL">>}, {0}, {0}, EdgeWords, EdgeWords,
            {NoC, WithC}, {0}, {0})
    \cup Starts({<<"CP", "POPAF", "CCF">>}, {1}, EdgeBytes, {0}, EdgeWords, {NoC}, {0}, {0})
    \cup Starts({<<"SET", "BIT">>, <<"RES", "BIT">>, <<"SET", "RES">>, <<"RES", "SET">>},
            {0}, Byte, {0}, {0}, {NoC, WithC}, {0}, 0 .. 7)
    \cup Starts({ <<op>> \o between \o <<"BITHL">> :
                op \in {"RLD", "ADDHL", "LDADE", "LDDEA", "IN", "BITIX"},
                between \in {<<>>, <<"SET">>, <<"ADD">>} },
            {8, 215}, {40, 128}, WZWords, WZWords, {NoC}, WZWords, {0, 7})
=============================================================================
