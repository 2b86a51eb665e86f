---------------------------- MODULE ElectionVoters ----------------------------
(***************************************************************************)
(* AdmissionData::electing_voters: the voter snapshot of an election       *)
(* (runtime/src/configs/validator_onboarding.rs).  Self votes of the       *)
(* admitted candidates come first; nominators are scanned in the order of  *)
(* the storage map, the best are kept in a bounded heap, and the tail is   *)
(* cut to the caller's size bound.                                         *)
(***************************************************************************)
EXTENDS Integers, Sequences, SequencesExt, FiniteSets, FiniteSetsExt

CONSTANTS VoterSnapshotPerBlock,
          NoBound  \* an absent count or size bound

Voter(who, stake, votes) == [who |-> who, stake |-> stake, votes |-> votes]

\* SCALE size of a voter: a fixed part and its votes; of the length prefix: 1.
encoded_size(voter) == 1 + Len(voter.votes)
PrefixSize == 1

\* Order of the retained nominators: (Reverse(stake), account), least first.
Before(v, w) == v.stake > w.stake \/ (v.stake = w.stake /\ v.who < w.who)

self_votes(snapshot) ==
  SelectSeq([i \in DOMAIN snapshot.targets |->
               Voter(snapshot.targets[i], snapshot.stake[snapshot.targets[i]],
                     <<snapshot.targets[i]>>)],
            LAMBDA v : v.stake > 0)

\* The votes of a nominator that count, and whether it is a voter at all.
Votes(n, snapshot) == SelectSeq(n.targets, LAMBDA t : t \in Range(snapshot.targets))
Eligible(n, snapshot) ==
  /\ ~n.suppressed /\ n.who \notin Range(snapshot.targets)
  /\ Votes(n, snapshot) # <<>> /\ snapshot.stake[n.who] > 0

\* Mutant: a full heap takes no better nominator.
Push_Full(heap, v, slots) == IF Cardinality(heap) < slots THEN heap \cup {v} ELSE heap

\* One push into the bounded heap: the worst entry is popped when it overflows.
Push(heap, v, slots) ==
  LET all == heap \cup {v}
      worst == CHOOSE w \in all : \A x \in all : x = w \/ Before(x, w)
  IN  IF slots = 0 THEN heap
      ELSE IF Cardinality(all) > slots THEN all \ {worst} ELSE all

\* The loop condition of the size bound: self votes are never popped.
Fits(voters, floor, size) ==
  \/ size = NoBound
  \/ Len(voters) <= floor
  \/ PrefixSize + FoldLeft(+, 0, [i \in DOMAIN voters |-> encoded_size(voters[i])]) <= size

RECURSIVE PopTail(_, _, _)
PopTail(voters, floor, size) ==
  IF Fits(voters, floor, size) THEN voters ELSE PopTail(Front(voters), floor, size)

electing_voters(snapshot, bounds) ==
  LET own == self_votes(snapshot)
      limit == IF bounds.count = NoBound THEN VoterSnapshotPerBlock
               ELSE Min({bounds.count, VoterSnapshotPerBlock})
      slots == Max({limit - Len(own), 0})
      scanned == SelectSeq(snapshot.nominators, LAMBDA n : Eligible(n, snapshot))
      heap == FoldLeft(LAMBDA h, n : Push(h, Voter(n.who, snapshot.stake[n.who], Votes(n, snapshot)),
                                          slots),
                       {}, scanned)
      voters == PopTail(own \o SetToSortSeq(heap, Before), Len(own), bounds.size)
  IN  [voters |-> voters, truncated |-> Len(voters) < Len(own) + Len(scanned)]
=============================================================================
