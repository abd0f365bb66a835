------------------------------ MODULE MCMarket ------------------------------
(***************************************************************************)
(* The modes as data_quality.yaml ships them, and tokens that differ in    *)
(* what the probes can find of them.                                       *)
(***************************************************************************)
EXTENDS Market

\* What the theorems ask of the configuration holds of the one that is shipped.
ASSUME ShippedFigures == StrictLimits /\ LooserLadder

NoMomentum == [enabled |-> FALSE, holders |-> 100, share |-> 60, liquidity |-> 10000, risk |-> 45]

Cautious == [reject |-> 30, risky |-> 15, unknown |-> 50, minAge |-> 0, launches |-> 0,
             social |-> FALSE, risk |-> 0, holders |-> 0, shadowProof |-> FALSE,
             noSocial |-> FALSE, momentum |-> NoMomentum]

Exploring == [Cautious EXCEPT !.reject = 65, !.risky = 35, !.unknown = 0, !.minAge = -1,
                              !.launches = 5, !.social = TRUE, !.risk = 40, !.holders = 50]

ShippedProfiles ==
  [STRICT |-> Cautious,
   BALANCED |-> [Cautious EXCEPT !.reject = 50, !.risky = 25, !.unknown = 35],
   EXPLORATION |-> Exploring,
   VERY_EXPLORATION |-> [Exploring EXCEPT !.reject = 75, !.risky = 45, !.launches = 10,
                                          !.risk = 45, !.holders = 25,
                                          !.shadowProof = TRUE, !.noSocial = TRUE]]

ShippedWeights == [honeypot |-> 30, tax |-> 20, rug |-> 20, wash |-> 10, dev |-> 25, liquidity |-> 20]

ShippedLimits ==
  [detectors |-> {"rug", "wash", "liquidity", "tax", "dev"}, concentration |-> 40,
   liquidity |-> 3000, launches |-> 1, noSocial |-> 40, shadowMode |-> TRUE,
   externalWeight |-> 20, reserves |-> 1, curve |-> 0, supply |-> 1, holders |-> 50,
   age |-> 900, narrative |-> 6, indeterminate |-> 3]

\* A first launch that deserves to pass, on the curve or as a pool of its own.
Honest(topic) ==
  [topic |-> topic, address |-> TRUE, launches |-> 0, links |-> TRUE, listedLinks |-> FALSE,
   uri |-> topic = "PumpFunCreate", described |-> FALSE,
   narrative |-> [score |-> 8, copied |-> FALSE, impersonates |-> FALSE],
   authorities |-> [mint |-> TRUE, freeze |-> TRUE], standard |-> "v1", supply |-> 1,
   holders |-> 120, share |-> 20, listedShare |-> 50, liquidity |-> 6000,
   reserves |-> IF topic = "PoolCreated" THEN 5 ELSE 0]

\* One of a creator who launches often, and of one who has launched before.
Serial == [Honest("PumpFunCreate") EXCEPT !.launches = 6]
Second == [Honest("PumpFunCreate") EXCEPT !.launches = 2]

\* One that has left the curve with more tokens than a launch has.
Graduated == [Honest("PumpFunAMMCreatePool") EXCEPT !.supply = 2, !.listedLinks = TRUE,
                                                    !.standard = "2022"]

\* One without links, whose description the narrative probe knows.
Bare == [Honest("PumpFunCreate") EXCEPT !.links = FALSE, !.launches = 1, !.liquidity = 2000,
            !.described = TRUE, !.narrative = [score |-> 3, copied |-> TRUE, impersonates |-> FALSE]]

Tokens6 == {Honest("PumpFunCreate"), Honest("PoolCreated"), Serial, Second, Graduated, Bare}

\* Those of them that are probed a second time.
Returning == {Second}
=============================================================================
