------------------------------ MODULE MCRegistry ------------------------------
(***************************************************************************)
(* Small instances of MinerRegistry: a small and a large descriptor, one   *)
(* no account can afford, and malformed ones.                              *)
(***************************************************************************)
EXTENDS MinerRegistry

Descriptor(identity, port, miners, info, runtime) ==
  [identity |-> identity, port |-> port, miners |-> miners, system_info |-> info,
   runtime |-> runtime]
Survey(brand, gpu, utilization) ==
  [required |-> <<1, brand, 1>>, optional |-> <<0, 0>>, gpus |-> <<gpu, 1>>,
   utilization |-> {utilization}]

MCInputs ==
  {Descriptor(<<1, 1>>, 1, << << >> >>, None, None),               \* length 2
   Descriptor(<<1, 1>>, 1, << <<1>> >>, Survey(1, 1, 100), <<1, 1>>),  \* length 10
   Descriptor(<<9, 9>>, 1, << <<9>> >>, None, None),               \* too expensive
   Descriptor(<<0, 1>>, 1, << <<1>> >>, None, None),               \* empty node id
   Descriptor(<<1, 1>>, 0, << <<1>> >>, None, None),               \* port zero
   Descriptor(<<1, 1>>, 1, << >>, None, None),                     \* no miners
   Descriptor(<<1, 1>>, 1, << <<1>> >>, Survey(1, 1, 101), None),  \* utilization
   Descriptor(<<1, 1>>, 1, << <<1>> >>, None, <<0, 1>>)}           \* empty version
=============================================================================
