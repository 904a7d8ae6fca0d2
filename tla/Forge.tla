------------------------------- MODULE Forge --------------------------------
(***************************************************************************)
(* The owner's command line (crates/propamm-cli) and the node it talks to   *)
(* (crates/propamm-client): init, deploy, fund, quote, quote --clear and    *)
(* status, one command at a time, on a vault that others change meanwhile.  *)
(*                                                                          *)
(* A command is a walk of requests to the node, one action each, because    *)
(* the chain moves between two of them.  Any request may fail.  The chain   *)
(* is the one of module Vault, as a confirmed read shows it; a signed       *)
(* transaction waits in mempool, and is executed at most once, in a slot    *)
(* later than its blockhash and while the blockhash lives.  A signature is  *)
(* a function of what is signed, so a transaction is its own signature:     *)
(* two commands that sign the same thing over the same blockhash have sent  *)
(* one transaction.                                                         *)
(*                                                                          *)
(* log is a history variable: what each finished command told its user,     *)
(* with the chain as the command saw it.                                    *)
(***************************************************************************)
EXTENDS Vault, Amount, Sequences, FiniteSets

CONSTANTS
    OwnerKey,      \* the key whose address init writes into the config
    Base, Quote,   \* the two mints of the project's pair
    Decimals,      \* decimal places of each mint
    NoKey,         \* no --keypair given
    Funds,         \* arguments of fund: a side and a typed amount
    Sets,          \* arguments of quote
    Limits,        \* the risk limits init writes
    Nil,           \* no transaction, nothing seen
    BLOCKHASH      \* how many slots a blockhash lives

HowGiven == {"human", "raw"}

\* Signed transactions.
Txs == [ix : [op : {"deploy", "clear"}]
             \union [op : {"fund"}, side : TreasurySides, amount : Nat]
             \union [op : {"quote"}, terms : QuoteUpdate],
        hash : Nat, signer : Keys]

ASSUME ForgeAssumption ==
    /\ OwnerKey \in Keys /\ NoKey \notin Keys
    /\ Base \in Mints /\ Quote \in Mints /\ Base # Quote
    /\ Decimals \in [Mints -> Nat]
    /\ Funds \subseteq [side : TreasurySides, amount : Decimal]
    /\ Sets \subseteq [mid_how : HowGiven, mid : Decimal, size_how : HowGiven,
                       size : Decimal, spread_bps : Nat, skew_bps : Int]
    /\ \A a \in Funds : from_str(a.amount)
    /\ \A a \in Sets : from_str(a.mid) /\ from_str(a.size)
    /\ Limits \in RiskLimits
    /\ BLOCKHASH \in Nat
    /\ Nil \notin Txs

VARIABLES
    files,    \* what is in the project directory
    wallet,   \* the owner's token account of each side
    cmd,      \* the command that runs
    mempool,  \* transactions the node has taken and the chain has not
    landed,   \* transactions the chain has executed, each with its outcome
    log

forgeVars == <<files, wallet, cmd, mempool, landed, log>>

Idle == [pc |-> "idle", kind |-> "none", args |-> Nil, keypair |-> NoKey,
         tx |-> Nil, seen |-> Nil, slot |-> 0]

\* The command ends and tells its user what came of it.  Of one that signed nothing
\* only the verdict is kept.
Tell(verdict) ==
    /\ log' = Append(log, [verdict |-> verdict, kind |-> cmd.kind, tx |-> cmd.tx,
                           args |-> IF cmd.tx = Nil THEN Nil ELSE cmd.args,
                           seen |-> IF verdict = "refused" THEN Nil ELSE cmd.seen])
    /\ cmd' = Idle

-----------------------------------------------------------------------------
(* init: a directory becomes a project.                                     *)

InitFiles == <<"propamm.toml", "README.md", ".gitignore">>

\* The config is what makes a directory a project.
IsProject == InitFiles[1] \in files

\* The config is written first, so an init that fails on a later file leaves a
\* project behind, and without --force the next init refuses it.
init(force, written) ==
    /\ cmd.pc = "idle"
    /\ IsProject => force
    /\ files' = files \union {InitFiles[i] : i \in 1..written}
    /\ log' = Append(log, [verdict |-> IF written = Len(InitFiles) THEN "done" ELSE "failed",
                           kind |-> "init", args |-> Nil, tx |-> Nil, seen |-> Nil])
    /\ UNCHANGED <<vars, wallet, cmd, mempool, landed>>

-----------------------------------------------------------------------------
(* Running a command.                                                       *)

\* Session::open and select: a project, and a key that signs as its owner.  The
\* refusals of this step send no request and leave no trace.
Open(kind, args, keypair) ==
    /\ cmd.pc = "idle"
    /\ IsProject
    /\ cmd' = [Idle EXCEPT !.pc = "look", !.kind = kind, !.args = args,
                           !.keypair = keypair]
    /\ UNCHANGED <<vars, files, wallet, mempool, landed, log>>

\* A request that gets no usable answer before anything is signed ends the command.
AskFails ==
    /\ cmd.pc \in {"look", "sign", "vaults", "details"}
    /\ cmd' = Idle
    /\ log' = Append(log, [verdict |-> "failed", kind |-> cmd.kind, args |-> Nil,
                           tx |-> Nil, seen |-> Nil])
    /\ UNCHANGED <<vars, files, wallet, mempool, landed>>

\* The key of pricing_signer: the one named, or the owner's.
Signer == IF cmd.keypair = NoKey THEN OwnerKey ELSE cmd.keypair

MidOf(a) ==
    IF a.mid_how = "raw" THEN a.mid.mantissa
    ELSE to_mid_e9(a.mid, Decimals[Base], Decimals[Quote])

SizeOf(a) ==
    IF a.size_how = "raw" THEN a.size.mantissa ELSE to_raw(a.size, Decimals[Base])

Converts(a) ==
    /\ a.mid_how = "human" =>
           ToMidVerdict(a.mid, Decimals[Base], Decimals[Quote]) = "Ok"
    /\ a.size_how = "human" => ToRawVerdict(a.size, Decimals[Base]) = "Ok"

\* What summarize hands to the instruction.
summarize(a) ==
    [mid_e9 |-> MidOf(a), spread_bps |-> a.spread_bps, skew_bps |-> a.skew_bps,
     max_size_base |-> SizeOf(a)]

\* A slip: the conversion taken as it comes, its domain left to the program.
DomainUnchecked(a) == Converts(a)

\* The same side_price_e9 as the program's, over the limits of the account.
InDomain(a) ==
    /\ Converts(a)
    /\ MidOf(a) # 0 /\ SizeOf(a) # 0
    /\ \A side \in Sides : PriceVerdict(Candidate(summarize(a)), side) = "Ok"

\* deploy: nothing there yet.  Screening the mints is left to the program.
DeployLook == ~Deployed

\* fund: a whole number of units, out of an account that holds as much.
FundLook ==
    LET side == cmd.args.side
        decimals == Decimals[MintOf(side)]
    IN  /\ Deployed
        /\ ToRawVerdict(cmd.args.amount, decimals) = "Ok"
        /\ wallet[side] >= to_raw(cmd.args.amount, decimals)

\* quote and quote --clear: not halted, and a signer checked against the account.
QuoteLook == Deployed /\ ~vault.halted /\ Signer = vault.pricing_authority

Checks ==
    CASE cmd.kind = "deploy" -> DeployLook
      [] cmd.kind = "fund" -> FundLook
      [] cmd.kind = "quote" -> QuoteLook /\ InDomain(cmd.args)
      [] cmd.kind = "clear" -> QuoteLook

\* The part of the chain the checks depend on: the rest may move freely.
SeenBy(kind, args) ==
    CASE kind = "deploy" -> <<vault.owner>>
      [] kind = "fund" -> <<vault.owner, wallet[args.side], treasury[args.side]>>
      [] kind = "quote" -> <<vault.pricing_authority, vault.halted>>
      [] kind = "clear" -> <<vault.pricing_authority>>

\* The command reads the accounts and goes on, or refuses and says why.
Look ==
    /\ cmd.pc = "look" /\ cmd.kind # "status"
    /\ IF Checks
       THEN /\ cmd' = [cmd EXCEPT !.pc = "sign", !.seen = SeenBy(cmd.kind, cmd.args)]
            /\ UNCHANGED log
       ELSE Tell("refused")
    /\ UNCHANGED <<vars, files, wallet, mempool, landed>>

\* deploy: the program and the keys are the project's, the mints those just read.
DeployIx == [op |-> "deploy"]

\* fund: the amount in units of the mint just read.  The treasury's balance, read only
\* to be shown, is not part of it.
FundIx ==
    [op |-> "fund", side |-> cmd.args.side,
     amount |-> to_raw(cmd.args.amount, Decimals[MintOf(cmd.args.side)])]

\* quote: the terms summarize came to, or none.
QuoteIx ==
    IF cmd.kind = "clear" THEN [op |-> "clear"]
    ELSE [op |-> "quote", terms |-> summarize(cmd.args)]

\* The builders of propamm-client, given what the command read.
Instruction ==
    CASE cmd.kind = "deploy" -> DeployIx
      [] cmd.kind = "fund" -> FundIx
      [] OTHER -> QuoteIx

\* The first signer pays and the latest blockhash is signed over.
Sign ==
    /\ cmd.pc = "sign"
    /\ cmd' = [cmd EXCEPT !.pc = "send",
                   !.tx = [ix |-> Instruction, hash |-> slot,
                           signer |-> IF cmd.kind \in {"quote", "clear"}
                                      THEN Signer ELSE OwnerKey]]
    /\ UNCHANGED <<vars, files, wallet, mempool, landed, log>>

-----------------------------------------------------------------------------
(* The node and the chain.                                                  *)

Ended == {l.tx : l \in landed}

HashLives(tx) == slot - tx.hash <= BLOCKHASH

\* What the transaction does to the chain, and to the account it draws on.
Execute(tx) ==
    \/ /\ tx.ix.op = "deploy"
       /\ initialize_vault(tx.signer, Base, Quote, tx.signer, tx.signer, Limits)
       /\ UNCHANGED wallet
    \/ /\ tx.ix.op = "fund"
       /\ wallet[tx.ix.side] >= tx.ix.amount
       /\ deposit(tx.signer, tx.ix.side, tx.ix.amount)
       /\ wallet' = [wallet EXCEPT ![tx.ix.side] = @ - tx.ix.amount]
    \/ /\ tx.ix.op = "quote"
       /\ update_quote(tx.signer, tx.ix.terms)
       /\ UNCHANGED wallet
    \/ /\ tx.ix.op = "clear"
       /\ clear_quote_ix(tx.signer)
       /\ UNCHANGED wallet

\* Whether it does: what the program and the tokens ask of it.
Executes(tx) ==
    CASE tx.ix.op = "deploy" ->
             /\ ~Deployed /\ LimitsValid(Limits)
             /\ ensure_transfer_is_faithful(Base) /\ ensure_transfer_is_faithful(Quote)
      [] tx.ix.op = "fund" ->
             /\ ByOwner(tx.signer)
             /\ wallet[tx.ix.side] >= tx.ix.amount /\ tx.ix.amount > 0
             /\ FitsU64(treasury[tx.ix.side] + tx.ix.amount)
      [] tx.ix.op = "quote" ->
             ByPricing(tx.signer) /\ ~vault.halted /\ Acceptable(tx.ix.terms)
      [] OTHER -> ByPricing(tx.signer)

\* The preflight simulation, which is not disabled.
Preflight(tx) == tx \notin Ended /\ HashLives(tx) /\ Executes(tx)

\* The node takes the transaction, or refuses it with the logs of the simulation.
Send ==
    /\ cmd.pc = "send"
    /\ IF Preflight(cmd.tx)
       THEN /\ mempool' = mempool \union {cmd.tx}
            /\ cmd' = [cmd EXCEPT !.pc = "poll"]
            /\ UNCHANGED log
       ELSE Tell("rejected") /\ UNCHANGED mempool
    /\ UNCHANGED <<vars, files, wallet, landed>>

\* The answer is lost, and whether the node took the transaction is not known.
SendUnanswered ==
    /\ cmd.pc = "send"
    /\ \/ UNCHANGED mempool
       \/ Preflight(cmd.tx) /\ mempool' = mempool \union {cmd.tx}
    /\ Tell("unanswered")
    /\ UNCHANGED <<vars, files, wallet, landed>>

Land(tx) ==
    /\ tx \in mempool
    /\ slot > tx.hash /\ HashLives(tx)
    /\ mempool' = mempool \ {tx}
    /\ \/ /\ Execute(tx)
          /\ landed' = landed \union {[tx |-> tx, outcome |-> "ok"]}
       \/ /\ ~Executes(tx)
          /\ landed' = landed \union {[tx |-> tx, outcome |-> "err"]}
          /\ UNCHANGED <<vars, wallet>>
    /\ UNCHANGED <<files, cmd, log>>

\* A transaction whose blockhash has died, or that was dropped on the way.
Expire(tx) ==
    /\ tx \in mempool
    /\ mempool' = mempool \ {tx}
    /\ UNCHANGED <<vars, files, wallet, cmd, landed, log>>

-----------------------------------------------------------------------------
(* confirm: polling the status of the signature.                            *)

\* A slip: a status is taken for a success.
StatusIsSuccess ==
    /\ cmd.pc = "poll"
    /\ cmd.tx \in Ended
    /\ Tell("confirmed")
    /\ UNCHANGED <<vars, files, wallet, mempool, landed>>

PollFinds ==
    /\ cmd.pc = "poll"
    /\ \E l \in landed :
           /\ l.tx = cmd.tx
           /\ Tell(IF l.outcome = "ok" THEN "confirmed" ELSE "error")
    /\ UNCHANGED <<vars, files, wallet, mempool, landed>>

\* Ninety seconds of no status: "it may still have executed".
PollTimesOut ==
    /\ cmd.pc = "poll"
    /\ cmd.tx \notin Ended
    /\ Tell("unconfirmed")
    /\ UNCHANGED <<vars, files, wallet, mempool, landed>>

\* One poll without an answer gives the whole wait up.
PollFails ==
    /\ cmd.pc = "poll"
    /\ Tell("unanswered")
    /\ UNCHANGED <<vars, files, wallet, mempool, landed>>

-----------------------------------------------------------------------------
(* status: the slot, then the vaults, then their mints and treasuries.      *)

StatusSlot ==
    /\ cmd.pc = "look" /\ cmd.kind = "status"
    /\ cmd' = [cmd EXCEPT !.pc = "vaults", !.slot = slot]
    /\ UNCHANGED <<vars, files, wallet, mempool, landed, log>>

\* A missing vault is reported as not deployed, and ends the report here.
StatusVaults ==
    /\ cmd.pc = "vaults"
    /\ IF Deployed
       THEN /\ cmd' = [cmd EXCEPT !.pc = "details",
                         !.seen = [quote_slot |-> quote.quote_slot, posted |-> quote.mid_e9 # 0,
                                   max_age |-> limits.max_quote_age_slots, at |-> slot]]
            /\ UNCHANGED log
       ELSE Tell("not deployed")
    /\ UNCHANGED <<vars, files, wallet, mempool, landed>>

\* What render says of the account read, at the slot read before it.
SaysFresh ==
    /\ cmd.seen.posted
    /\ Monus(cmd.slot, cmd.seen.quote_slot) <= cmd.seen.max_age

StatusDetails ==
    /\ cmd.pc = "details"
    /\ Tell(IF SaysFresh THEN "fresh" ELSE "no price or stale")
    /\ UNCHANGED <<vars, files, wallet, mempool, landed>>

-----------------------------------------------------------------------------
ForgeInit ==
    /\ cmd = Idle
    /\ mempool = {}
    /\ landed = {}
    /\ log = <<>>

ForgeNext ==
    \/ \E force \in BOOLEAN, written \in 0..Len(InitFiles) : init(force, written)
    \/ Open("deploy", Nil, NoKey)
    \/ \E a \in Funds : Open("fund", a, NoKey)
    \/ \E a \in Sets, k \in Keys \union {NoKey} : Open("quote", a, k)
    \/ \E k \in Keys \union {NoKey} : Open("clear", Nil, k)
    \/ Open("status", Nil, NoKey)
    \/ AskFails \/ Look \/ Sign \/ Send \/ SendUnanswered
    \/ PollFinds \/ PollTimesOut \/ PollFails
    \/ StatusSlot \/ StatusVaults \/ StatusDetails
    \/ \E tx \in mempool : Land(tx) \/ Expire(tx)
=============================================================================
