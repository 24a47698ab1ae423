-------------------------- MODULE MCModbusRegisters --------------------------
(* ModbusRegisters with bytes of three bits: two holding registers, six    *)
(* coils.  One master works on the registers, one on the coils, and one    *)
(* writes more coils than a byte holds.                                    *)
EXTENDS ModbusRegisters

MCInput    == [r \in Reg |-> 8 + r]
MCHolding  == [r \in Reg |-> 19 + 20 * r]
MCDiscrete == [b \in Bit |-> b \in {0, 4, 7}]
MCCoils    == [b \in Bit |-> b \in {0, 4, 7}]

(* Addresses: both registers, the first one behind, and the last of all. *)
Addrs == {0, 1, 2, 63}
Data  == <<1, 2, 3, 4, 5, 6, 7, 0>>

Query(fn, len, addr, cnt) ==
  [fn |-> fn, len |-> len, addr |-> addr, cnt |-> cnt, waddr |-> 0, wcnt |-> 0,
   bytes |-> 0, data |-> <<>>]
Filled(q, bytes, data) == [q EXCEPT !.bytes = bytes, !.data = data]

RegisterReads(counts) == {Query(fn, 5, a, n) : fn \in {3, 4}, a \in Addrs, n \in counts}
SingleWrites == {Query(6, 5, a, 9) : a \in Addrs}
MultipleWrites ==
  {Filled(Query(16, 12, a, n), b, Data) : a \in Addrs, n \in 0..4, b \in {0, 2, 4}}
ReadWrites ==
  {[Filled(Query(23, 16, a, n), b, Data) EXCEPT !.waddr = w, !.wcnt = m] :
     a \in {0, 1, 63}, n \in {0, 1, 2}, w \in {0, 1, 63}, m \in {1, 2}, b \in {2, 4}}
WrongLengths == {Query(fn, len, 0, 1) : fn \in {3, 4, 6, 17}, len \in {1, 4, 6}} \cup
                {Filled(Query(16, 5, 0, 1), 2, Data)} \cup
                {[Filled(Query(23, 9, 0, 1), 2, Data) EXCEPT !.wcnt = 1]}

HoldingRequests == RegisterReads(0..4) \cup SingleWrites \cup MultipleWrites \cup ReadWrites
                     \cup WrongLengths

(* Coil writes of n coils; Padded: the unused bits of the value are zero. *)
CoilAddrs == 0..5 \cup {63}
CoilWrites(counts, values) ==
  {Filled(Query(15, 8, a, n), b, <<v, 5>>) :
     a \in CoilAddrs, n \in counts, b \in {1, 2}, v \in values}
Padded(q) == q.cnt \in 1..2 => q.data[1] < 2^(q.cnt)
CoilReads == {Query(1, 5, a, n) : a \in CoilAddrs \cup {31}, n \in 0..7} \cup
             {Query(2, 5, a, 5) : a \in {0, 5}}
CoilSets  == {Query(5, 5, a, v) : a \in CoilAddrs, v \in {0, 1, CoilOn}}
WrongCoilLengths == {Filled(Query(fn, 4, 0, 1), 1, <<7, 5>>) : fn \in {1, 2, 5, 15}}

CoilRequests == CoilReads \cup CoilSets \cup WrongCoilLengths \cup
                {q \in CoilWrites({0, 1, 2, 3, 7}, {0, 1, 2, 5, 7}) : Padded(q)}
ManyCoils    == {q \in CoilWrites({4, 5, 6}, {7}) : q.bytes = 2}

MCRequests ==
  [registers |-> HoldingRequests, coils |-> CoilRequests, manyCoils |-> ManyCoils]
MCAdditionalLens ==
  [registers |-> {1, 2, 3}, coils |-> {}, manyCoils |-> {}]
==============================================================================
