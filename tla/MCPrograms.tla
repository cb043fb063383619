----------------------------- MODULE MCPrograms -----------------------------
(***************************************************************************)
(* The programs and data structures that stand alone, for one run of TLC:  *)
(* one of them is chosen at the start and takes all the steps, the others  *)
(* stay as they are at their start.                                        *)
(***************************************************************************)
EXTENDS PriceServer, MarketStrategy, TradeEngine, NumericKernels,
        RobinHoodHashTable, OrderPriorityQueue, OrderBookBuffer

VARIABLE program   \* the one that runs

programVars == <<program, pvars, svars, evars, shape, tvars, hvars, bvars>>

\* Two orders of each price.
MCPrice == [o \in HeapOrders |-> (o + 1) \div 2]

\* The table tells its keys apart by their hashes only: every hash function is
\* one of these, up to the names of the keys.
Ascending == \A j, k \in Keys : j < k => hash[j] <= hash[k]

ProgramsInit ==
  /\ program \in {"prices", "strategy", "engine", "kernels", "table", "heap", "buffer"}
  /\ PricesInit /\ StrategyInit /\ EngineInit /\ HeapInit /\ BufferInit
  /\ IF program = "kernels" THEN KernelsInit ELSE shape = [rows |-> 1, inner |-> 1, cols |-> 1]
  /\ TableInit /\ Ascending
  /\ program # "table" => \A k \in Keys : hash[k] = 0

RunPrices ==
  program = "prices" /\ PricesNext /\ UNCHANGED <<svars, evars, shape, tvars, hvars, bvars>>
RunStrategy ==
  program = "strategy" /\ StrategyNext /\ UNCHANGED <<pvars, evars, shape, tvars, hvars, bvars>>
RunEngine ==
  program = "engine" /\ EngineNext /\ UNCHANGED <<pvars, svars, shape, tvars, hvars, bvars>>
RunKernels ==
  program = "kernels" /\ KernelsNext /\ UNCHANGED <<pvars, svars, evars, tvars, hvars, bvars>>
RunTable ==
  program = "table" /\ TableNext /\ UNCHANGED <<pvars, svars, evars, shape, hvars, bvars>>
RunHeap ==
  program = "heap" /\ HeapNext /\ UNCHANGED <<pvars, svars, evars, shape, tvars, bvars>>
RunBuffer ==
  program = "buffer" /\ BufferNext /\ UNCHANGED <<pvars, svars, evars, shape, tvars, hvars>>

ProgramsNext ==
  /\ UNCHANGED program
  /\ \/ RunPrices \/ RunStrategy \/ RunEngine \/ RunKernels \/ RunTable \/ RunHeap \/ RunBuffer

ProgramsSpec == ProgramsInit /\ [][ProgramsNext]_programVars
=============================================================================
