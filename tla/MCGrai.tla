-------------------------------- MODULE MCGrai --------------------------------
(***************************************************************************)
(* Small instances of Grai for TLC.  Scales shrink (BPS is 4, the dividend *)
(* precision is single-digit), so every division of the code rounds inside *)
(* the bounds; the configurations keep the relations between the fields    *)
(* that validate_protocol_config enforces.                                 *)
(***************************************************************************)
EXTENDS Grai, TLC

\* ask[n] of a rate: the loop of apply_mint_premium
MCAsk(r) ==
    LET ask[n \in 0..MAX_MINT_PREMIUM_YEARS] ==
          IF n = 0 THEN BPS ELSE (ask[n - 1] * (BPS + r)) \div BPS
    IN  ask

MCPremiumRates == {0, 2}

MCMintPrice == [r \in MCPremiumRates |-> MCAsk(r)]

MCConfig == [dividend_cut_bps |-> 2, treasury_cut_bps |-> 2, revenue_share_bps |-> 1,
             claim_tip_bps |-> 0, bribe_premium_bps |-> 2, quorum_bps |-> 2,
             unlock_penalty_bps |-> 0, poach_fee_bps |-> 0, liquidation_period |-> 1,
             redeem_period |-> 1, mint_premium_bps_per_year |-> 0]

\* a flat unlock penalty of half, whose dust floor is two units, and a poach fee
MCPenaltyConfig == [MCConfig EXCEPT !.unlock_penalty_bps = 2, !.poach_fee_bps = 1]

\* a mint premium that compounds every year
MCPremiumConfig == [MCConfig EXCEPT !.mint_premium_bps_per_year = 2]

\* longer windows, and one configuration that validation refuses
MCLongConfig == [MCConfig EXCEPT !.liquidation_period = 2, !.redeem_period = 2]
MCBadConfig  == [MCConfig EXCEPT !.quorum_bps = 1]

MCPlain    == {MCConfig}
MCPenalty  == {MCPenaltyConfig}
MCPremium  == {MCPremiumConfig, [MCPremiumConfig EXCEPT !.liquidation_period = 2]}
MCOwned    == {MCConfig, MCLongConfig, MCBadConfig}
MCSplit    == <<3, 1>>
MCSplits   == {MCSplit}
MCTwoSplits == {MCSplit, <<2, 2>>, <<2, 1>>}

Symmetry == Permutations(Users)

-------------------------------------------------------------------------------
(* Liveness.  The clock advances and somebody calls the permissionless revive;  *)
(* nobody else is assumed to do anything.                                       *)

LiveSpec == Spec /\ WF_vars(Tick) /\ WF_vars(Revive)

\* A liquidation always ends: no redeem, claim, sweep or owner call can hold it open
\* (revive.rs execute_revive is permissionless and pays nothing it may lack).
LiquidationEnds == liquidation ~> ~liquidation

-------------------------------------------------------------------------------
(* What the repository's documents and comments say, where the code differs. *)

\* dividend.rs: "a freshly created position must be settled from old_locked == 0 so it
\* never claims dividends that accrued before it existed".  What the step that creates it
\* adds to the index is its own.
FreshPositionStartsEmpty ==
    [][\A u \in Users, a \in Assets :
         ~position[u][a].exists /\ position'[u][a].exists =>
           Pending(u, a)' <= Accumulated(locked'[u], asset'[a].acc_share)
                               - Accumulated(locked'[u], asset[a].acc_share)]_vars

===============================================================================
