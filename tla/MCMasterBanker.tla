--------------------------- MODULE MCMasterBanker ---------------------------
(***************************************************************************)
(* Small instances of the master banker for TLC.                           *)
(***************************************************************************)
EXTENDS InterAccountConsistency

Top == << "top" >>
Campaign == << "top", "campaign" >>
Agent == << "top", "campaign", "agent" >>

ChainKeys == { Top, Campaign, Agent }
PairKeys == { Top, Campaign }
AgentOnly == { Agent }

\* Amounts of either sign.
SignedAdjustments == { -2, 1 }
SignedBalances == { -1, 1, 2 }

SpendOne == [ commitmentsRetired |-> 1, commitmentsMade |-> 1, spent |-> 1 ]
CommitOne == [ commitmentsRetired |-> 0, commitmentsMade |-> 1, spent |-> 0 ]
BothShadows == { SpendOne, CommitOne }
SpendShadow == { SpendOne }
NoShadows == {}

=============================================================================
