# Stayke contracts: a TLA+ verification project

Stayke is a rental marketplace on Solana. Five Anchor programs keep user profiles, guarantee
deposits, bookings with their money in escrow, and disputes. Five generated TypeScript packages, one
per program, build the transactions that reach them. This directory models both, checks the models
with TLC on small instances and proves most of the properties with TLAPS for every instance.

## 1. The system

| program | state | operations | called by |
|---|---|---|---|
| stayke-config | `GlobalConfig` (fee, free tier, minimum deposit, program ids), platform vault | `initialize_config`, `withdraw_fees`; `assert_cpi_authority` as a library | read by all |
| stayke-core | `UserProfile`, `ReputationProfile`, `Identity`, `Listing` | `initialize_*`, `init_identity`, `link_identity`, listing mutators; counters, slots and scores by CPI | treasury, escrow, disputes |
| stayke-treasury | one token vault; each user's share is `UserProfile.deposited` | `deposit_guarantee`, `withdraw_guarantee`; `cpi_penalize_transfer` | escrow, disputes |
| stayke-escrow | `Booking`, an escrow token account per booking, `BookingDays` per listing and year | create, accept, reject, expire, cancel (guest, host), start, complete, release, review (guest, host), each of the calendar ones also across two years; `cpi_update_booking_status`, `cpi_resolve_dispute_transfer` | disputes |
| stayke-disputes | `DisputeAccount` per booking, `DisputeConfig.admins` | open, withdraw (`solve_dispute_before_admin`), escalate, resolve, close, `link_evidence`, `add_admin`, `delete_admin` | |

Each program has a package under `src/packages`: for every instruction (55 in all) an asynchronous
builder, which derives the accounts the caller leaves out by hashing seeds one default after the
other, a synchronous one, which fills in fixed program addresses only, and a parser; and a plugin
that offers the asynchronous builders with the caller's own key as the default payer. The packages
keep no state between calls, but a call takes its time: accounts are read, derived and sent, and
other transactions land meanwhile.

An instruction is a transaction: a failing check, transfer or inner call undoes all of it. What
interleaves is the order of transactions of guests, hosts, admins and anybody who calls the
permissionless ones (*cranks*: expire, start, complete, release, escalate, close), and the clock.
Everything hard about the system follows from that, and from one fact living in several accounts of
several programs:

* a booking is frozen by a dispute of another program, which restores, decides or settles it;
* what a user guaranteed is recorded in core, held in treasury, and taken by escrow or disputes;
* stays are counted in core, by escrow after a payout or by disputes after a verdict;
* the days of a listing are taken by one booking and must be given back by the same;
* time windows meet: acceptance and expiry, cancellation and check-in, payout and dispute,
  withdrawal and escalation;
* every split of an amount is rounded, and an escrow account can be closed only when empty;
* accounts are closed and created again at the same address;
* both sides compute the same addresses, each from its own text: seeds, their order, encoding and
  program id are written once in the programs and once in the clients.

What makes each component correct:

* **profiles** - an identity belongs to one profile; counters and scores agree with the bookings;
  the active-booking slot names a stay of its owner that is not over.
* **treasury** - the vault holds what the profiles record.
* **calendar** - taken days are exactly those of bookings not cancelled, none taken twice; months,
  years and leap days are converted right, and a free day is never refused.
* **escrow** - the money of a booking is held until it is decided, and then paid out, all of it, once.
* **disputes** - a dispute and its booking agree; a frozen booking's money does not move; a settled
  booking stays settled; a dispute gets out of the hands of the parties.
* **clients** - an account that is filled in is the one the program wants; an instruction built from
  what the caller saw is refused only when another overtook it; a program takes no mixture of two
  stays' accounts, and no client enters where only programs may; what is sent is decoded as asked.

`PROJECT.json` lists the hazards at their lines with the properties aimed at each.

## 2. The modules

The programs:

| module | models | EXTENDS |
|---|---|---|
| `CoreProfiles` | profiles, reputation, identities and their mutators | |
| `Treasury` | guarantee vault, wallets | `CoreProfiles` |
| `Availability` | taken days of a listing, as a set | |
| `Calendar` | the same days as the code keeps them: dates, months, twelve masks a year; shown to implement `Availability` | |
| `Escrow` | the booking life cycle, its money and reviews | `Treasury`, `Availability` |
| `Disputes` | disputes, verdicts, admins, the two CPI entry points of escrow | `Escrow` |
| `Stayke` | the composition: next-state relation, clock, fairness, all properties | `Disputes` |
| `BookingCustody` | abstract specification: where a booking's money is, and when it may move | |
| `StaykeClaims` | statements of documents and comments that the code does not keep | `Stayke` |
| `MCStayke`, `MCCalendar` | small instances for TLC | `StaykeClaims`, `Calendar` |
| `StaykeEscrowProofs` | type correctness, lemmas on splits and rounding; the summary of a step; escrow backing, coupling, exact payouts; the refinement of `BookingCustody`, frozen and settled bookings | `Stayke` |
| `FiniteSums` | sums over finite sets, and the lemmas on them | |
| `StaykeLedgerProofs` | identities, the calendar, cancellation, payout, slots, counted stays; the vault, reviews | `StaykeEscrowProofs`, `FiniteSums` |
| `CalendarProofs` | the conversion of dates, the masks, and that they implement `Availability` | `Calendar`, `FiniteSums` |

The clients:

| module | models | EXTENDS |
|---|---|---|
| `Addresses` | derived addresses, seeds and their encodings | |
| `Builders` | what a builder is made of, and derivations under other programs' ids | `Addresses` |
| `ConfigClient`, `CoreClient`, `DisputesClient`, `EscrowClient`, `TreasuryClient` | one package each: derivations, builders with their defaults in order, discriminators, parsers, plugin | `Builders` |
| `AccountRules` | what a program demands of accounts and privileges; the effect of `init` and `close` | `Addresses` |
| `ConfigAccounts`, `CoreAccounts`, `DisputesAccounts`, `EscrowAccounts`, `TreasuryAccounts` | the `#[derive(Accounts)]` structs of each program, as data | `AccountRules` |
| `Callers` | who asks for what: stays, right and mixed-up accounts, what was looked at before | `AccountRules`, `Builders` |
| `ClientSessions` | sessions that fill in, build and land instructions, against one chain | `Callers` |
| `Clients` | sessions against rules: the properties of both sides | `ClientSessions` |
| `MCClients` | three stays for TLC | `Clients` |
| `ClientRuleProofs` | the loop that fills in accounts; the tables of builders, parsers and rules: closed entries, round trip, money and bookings, privileges | `Clients` |
| `ClientStayProofs` | the tables of rules once more: no mixture of stays | `ClientRuleProofs` |
| `ClientPlaceProofs` | where the accounts are that callers mean, and that rules demand and defaults derive these places: configuration, treasury, core, disputes | `ClientStayProofs` |
| `ClientHonestProofs` | the same for escrow; what becomes of an honest caller's request | `ClientPlaceProofs` |

**State.** An account field is a function from the keys of its accounts: `status[b]` is
`booking.status`, with `"None"` while the account does not exist. A booking's address is derived from
listing, guest and check-in, so these are constants of a booking; check-out and price are chosen by
`CreateBooking`. Token accounts are balances: `wallet`, `escrow`, `vault`, `platform`. `occupied[p]`
is the set of taken days of a listing. Time is `now`, in ticks, `DAY` of them in 24 h. In `Calendar`,
`occupiedDays` holds the `BookingDays` accounts by year, each of twelve sets of days (the bits of a
mask), and `stays` remembers whose days they are. Two variables of `Disputes` are history and stored by no
program: when a dispute is withdrawn with another booking, that booking is `strayed` and the
dispute's own is `abandoned`. In `ClientSessions` a session has its `phase`, its
`request`, the builder's `table` of accounts (its `accounts` object) and the index `next` of the
default to be tried; `store` is the set of accounts on the chain, `linked` the evidence that events
announced and `evidence` what disputes hold.

**Actions.** One per instruction. The account constraints of an instruction are the operator
`<Instruction>Accounts`, the handler is the action; every check is a conjunct wherever the handler
makes it, because a failing check undoes the transaction. A mutator of another program is an operator
that primes the field it writes, used in the action of the caller. The single-year and cross-year
variants are two actions: they take days under different conditions, and `guest_cancel_booking`
differs in its last moment. `Calendar` has an action for each of the four helpers of
`state/bookings.rs`, over `DeriveDate`, `MonthsDays` and the masks of `utils.rs`; a booking's days are
given back by its own dates, as the instructions do. A session of `ClientSessions` opens with a
request (`Open`), passes the defaults of the builder in their order - an account that is known is
kept (`Keep`), one that is not is derived (`Fill`), and one that cannot be derived makes the builder
throw (`Throw`) - and is built (`Build`); it lands when the rules of the program accept it (`Land`),
and is dropped otherwise or for any reason of the handler's or the network's (`Drop`). An address is
modelled by its program and seeds, so that two are equal exactly when those are.

**Details that are deliberate.** `host_accept_booking` compares `updated_at` with itself, so it has
no deadline. `booking_starts` accepts any host profile. `updated_at` is left alone by disputes.
`clear_active_booking` is unconditional. The payment of a verdict is the deposit *less* the slash and
must be positive, so a verdict of severity `High`, or against a party without a deposit, always
fails. After a verdict without fault the booking stays frozen until `close_dispute`. Settled stays
keep their days. A stay through the end of February takes a 29th in every fourth year, 2100
included. `link_evidence` takes the dispute read-only, so that nothing it writes is saved: it is a
transaction without effect in `Disputes`, and one that only announces in `ClientSessions`.
`DisputeConfig.admins` is a vector whose order nothing reads: a multiset. Operators
marked *Mutant* are faulty variants of the definition that follows them, kept to confirm that each
property notices a fault of that kind; nothing uses them otherwise.

**Abstractions.** Amounts are unbounded naturals (the code uses u64 with u128 intermediates and
fails on overflow); seeds, bumps, rents, events and mint checks are left out; `banned` is never set
by any instruction and left out; `is_active` and `is_occupied` of a listing are read by nobody. An
escrow account receives nothing but its booking's payment. In `Stayke` the initialisation
instructions are the initial state; in `Clients` they are instructions like all others, and an
instance may start from an empty chain. `AccountRules` holds the conditions on which accounts an
instruction is given and with which privileges; those on status, time and amounts are in `Escrow`
and `Disputes`, and `Drop` stands for their refusal.

## 3. Properties

**Programs** (`Stayke`). Safety: `EscrowBacked`, `PayoutsExact`, `CalendarExact`,
`DisputeCoupled`, `StaysCountedOnce`, `VaultMatchesDeposits`, `ActiveSlotSound`, `ReleasedLate`,
`ReviewsTally`, `IdentityExclusive`, and the type invariant `TypeOK`. Steps: `FrozenWhileDisputed`,
`SettledForever`, `CancelledByCheckIn`. Refinement: `CustodySpec`, the system
implements `BookingCustody` with `phase` a function of the status and `held` the escrow: a payment
in, a whole return, one settlement, a freeze or a thaw of one booking at a time. Liveness:
`RequestsAnswered`, `StaysSettle`, `DisputesProgress`.

**Calendar.** `DatesCivil`: every moment is converted into the civil date, for every day since 1970.
`MasksHoldStays`: the masks hold the days of the stays and no others. `DecidedByDays`: a stay is
refused only for a day that is taken, or by the instruction that is not meant for it. `KeepsBook`:
each step of the masks is one of `Availability`, so what is checked and proved of the booking life
cycle with a set of days holds of the masks.

**Clients.** `FilledFromFinal`: an account that is filled in is what its default derives from the
accounts that end up in the instruction. `OrderedDefaults`: a builder throws only for want of an
account that has no default. `RefusedOnlyIfOvertaken`: an instruction built from what its caller saw
has its accounts in place as long as what he saw is so. `PrivilegesSuffice`: the builder asks for all
signatures and write locks the program needs. `OneStay`: a program takes no mixture of accounts of
two stays. `EntriesClosed`: no client transaction passes the signer rule of an entry for other
programs. `NoOrphans`: no escrow account outlives its booking. `RoundTrip`: parsers read back what
was built. `EvidenceKept`: what `EvidenceLinked` announced the dispute holds (it does not).

Some hold under a condition that is part of the statement:

* `VaultMatchesDeposits` speaks of histories without a fault verdict, since a verdict pays out
  another amount than it records (see `verdict_table`).
* `solve_dispute_before_admin` does not check that the booking passed to it is the one of the dispute,
  so a guest or host with two bookings may restore the other one: a booking that is released,
  cancelled or only asked for takes the status of the disputed one, and that stays frozen (run
  `withdrawn_dispute`). The properties say how far the damage goes. `DisputeCoupled` states what
  becomes of the two (`Restored`, `Stranded`) and that all others are as they should be;
  `EscrowBacked` that the restored one has its whole price or nothing; `CalendarExact` that it may be
  without its days but takes none; `SettledForever` that no other transaction revives a booking.
  `PayoutsExact`, `ReleasedLate`, `StaysSettle` and the counts of `StaysCountedOnce` set a restored booking
  aside (`Regular`), since it may have no money, was perhaps never completed, and may count twice; in
  the custody it is `"astray"`. `FrozenWhileDisputed`, `ActiveSlotSound`, `VaultMatchesDeposits`,
  `ReviewsTally` and `RequestsAnswered` hold of all bookings.
* `OneStay` excepts the accounts that programs leave free (`LeftFree`): the dispute of a withdrawal,
  the host profile of `booking_starts`, and, of a verdict that finds no fault, the reputation profile
  and the escrow token account. The last two are tied to the booking where a fault is executed only;
  `NoFaultFound` takes those of any stay, and does nothing to them. It is a branch of its own
  (`ResolveWithoutFault`) in the rules and in what callers ask for.
* `CancelledByCheckIn` allows the very moment of check-in to the guest of a stay within a year, since
  `guest_cancel_booking` does, against its comment.
* `RefusedOnlyIfOvertaken` is an equivalence: requests that rest on one of four defaults
  (`DivergentDefaults`) never fit, and all others do. `bookingDays` of the two ways to create a
  booking is derived from the whole check-in instead of its year; `userProfile` of deposit and
  withdrawal is derived under the treasury's id instead of core's. A caller who gives these accounts
  himself is served.
* `PrivilegesSuffice` excepts, also by an equivalence, a `hostRejectBooking` that someone else than
  the fee payer pays for: the program has that account `mut`, the client passes it read-only.

## 4. Runs

The runs of the programs use `MCStayke`: "g" and "x" are guests, "h" the host of one listing.

| run | instance | checks |
|---|---|---|
| `calendar` | three bookings of two guests, overlapping, a year of four days so that stays cross it; 7 ticks | `TypeOK`, `CalendarExact`, `PayoutsExact`, `CancelledByCheckIn` |
| `disputes` | two successive stays of one guest, who has a deposit and disputes them; disputes withdrawn with either booking, verdicts without fault and for the host; 5 ticks | `EscrowBacked`, `CalendarExact`, `DisputeCoupled`, `StaysCountedOnce`, `ActiveSlotSound`, `ReleasedLate`, `FrozenWhileDisputed`, `SettledForever`, `CustodySpec` |
| `verdicts` | one stay booked four days ahead, deposits and withdrawals of both parties, late cancellations with their slash, disputes of either party, all ten outcomes; 9 ticks | `EscrowBacked`, `VaultMatchesDeposits`, `PayoutsExact`, `DisputeCoupled`, `StaysCountedOnce`, `FrozenWhileDisputed`, `SettledForever`, `CustodySpec` |
| `profiles` | two guests verified on the way, reviews of both kinds, disputes of the host, changes of the admins; 4 ticks | `IdentityExclusive`, `ReviewsTally` |
| `liveness` | two stays of one guest, disputes withdrawn with either booking or decided without fault; parties rest after tick 3; 7 ticks | `RequestsAnswered`, `StaysSettle`, `DisputesProgress` |
| `dates` | `MCCalendar`: every set of stays among fourteen moments at the ends of months, years and February, 2023 to 2025 and 2100 | `DatesCivil`, `MasksHoldStays`, `DecidedByDays`, `KeepsBook` |
| `clients` | `MCClients`: all 55 instructions by both kinds of builder, two sessions, a stay within a year, one across two and a third that is mixed in | `SessionsTypeOK`, `FilledFromFinal`, `OrderedDefaults`, `NoOrphans`, `RefusedOnlyIfOvertaken`, `PrivilegesSuffice`, `EntriesClosed`, `OneStay`, `RoundTrip` |

Five runs are expected to fail, each on one statement of the repository that the code does not keep
(quoted in `PROJECT.json`):

* `guarantee_locked` - the guarantee is said to be locked during an active booking; the slot that
  is tested is cleared by the release of *another* stay.
* `verdict_table` - the deposit paid to the victim is not the documented share but what is left of
  the deposit after it.
* `withdrawn_dispute` - withdrawing a dispute is said to restore its booking; another booking can be
  passed, and the disputed one stays frozen.
* `start_gate` - `booking_starts` is said to have no deposit gate; it has, and a guest who withdrew
  the deposit has an accepted booking that can neither start nor be cancelled.
* `evidence` - `link_evidence` is said to record the evidence; it announces it, and the dispute,
  being read-only, keeps none.

Three more disagreements are stated by properties that hold, so that the rest of what they say is
checked as well: the moment of check-in by `CancelledByCheckIn`, and the two defaults of the clients
by `RefusedOnlyIfOvertaken`.

**Bounds of the programs.** `MaxTime` and `Horizon` bound the clock, `MaxDeposited`, `Amounts`,
`Prices`, `CheckOuts`, `Outcomes`, `Disputants` and `ReviewScores` the inputs. With `DAY = 1` each of
the 24 h windows is one tick and the 72 h window three, so a run of 5 ticks contains a request, a
stay of a night, its payout or its dispute up to the verdict and the closing, and a second stay after
it; 9 ticks add both sides of the 72 h window. A price of 7 is divisible by none of the percentages,
so every rounding shows. Two bookings of one guest are enough for the slot and the counters, three
for a calendar in which a day is freed between two others. `profiles` leaves out verdicts, and
`calendar` disputes, which touch neither reviews nor days; days of a restored booking are in `disputes`.
Withdrawals name any booking of the opener (`PairedAccounts = FALSE`) in `disputes` and `liveness`, and in
`calendar` and `verdicts`, where the bound would change nothing. In `profiles`, and in the runs that show
another disagreement than this one, they name the dispute's own, to keep the instance small; the
theorem on reviews does not assume it. In `disputes` the host has no tokens to deposit, so that a verdict for
the host is the only one that finds a fault; in `liveness` nobody deposits, and a verdict that finds a
fault would always fail.

**Bounds of the calendar.** With `DAY = 2`, `Moments` are days on either side of every kind of end
there is, two of them also at noon; a leap year, common years, and 2100, which the
code's rule of four takes for one. The conversion of dates is compared for every day from 1970 on.
The day numbers of the code are u32 and stay far below their limit for every u64 timestamp a client
would send; TLC's integers cannot follow a timestamp near it, and none is tried. The theorems are about
any finite set of moments.

**Bounds of the clients.** A stay is a guest, a host, a listing and a check-in. Of three stays `old`
is under way from the beginning; `plain` and `crossing` share guest, host and listing, which is where
accounts can be confused. A caller gives the right accounts and leaves out all that have a default;
or makes one change: gives a default's account himself, forgets one that has none, has a relayer pay,
names a program's authority, or mixes up one account, or all those of a party or of a booking, with
another stay's (`Callers`). Two
sessions are under way together only with the instructions in `Together`, which create, close and
reuse accounts of each other, and with synchronous builders: an asynchronous one copies its input
before it starts, so nothing it reads changes meanwhile. Only the guest links evidence. The sessions
are interchangeable (`SYMMETRY`), and all properties of that run are invariants.

**Fairness.** `FairSpec` assumes weak fairness of each crank of each booking: the calls are
permissionless and one of the parties gains from each, so a call that stays possible is eventually
made. A due crank stays possible until it is made or until a party takes the booking elsewhere
(accepts, cancels, disputes), and after `Horizon` the parties rest. It assumes nothing of guests,
hosts and admins, and nothing of `BookingStarts`, which a gate may bar. The clock is strongly fair:
in the program nothing stops time; in the model it waits, after `Horizon`, until due cranks have been
called (but not for a booking restored with another one's dispute, whose payout the empty escrow may
bar), which keeps the clock's bound from cutting a window short. So the instance says: when a due
crank is eventually called, bookings come to their end. That an escalated dispute is ever decided is
*not* claimed: the last admin can remove itself, and a verdict of severity `High` always reverts.
These two hazards have no property.

`CHECK_DEADLOCK FALSE` is set in the runs of `MCStayke`, because the bounded clock ends an instance.
In `dates` and `clients` there is always a next step.

## 5. Proofs

`tlapm` proves the following for all values of the constants that satisfy the named assumptions; none of
them is on `PairedAccounts`, which may be either.

| theorem | states | module |
|---|---|---|
| `TypeCorrect` | `[]TypeOK` | `StaykeEscrowProofs` |
| `DisputesAlwaysCoupled`, `EscrowAlwaysBacked`, `PayoutsAlwaysExact` | `[]DisputeCoupled`, `[]EscrowBacked`, `[]PayoutsExact` | `StaykeEscrowProofs` |
| `ImplementsCustody`, `FrozenMoneyRests`, `SettledStaysSettled` | `CustodySpec`, `FrozenWhileDisputed`, `SettledForever` | `StaykeEscrowProofs` |
| `IdentityAlwaysExclusive` | `[]IdentityExclusive` | `StaykeLedgerProofs` |
| `CalendarAlwaysExact` | `[]CalendarExact` | `StaykeLedgerProofs` |
| `CancelledOnTime` | `CancelledByCheckIn` | `StaykeLedgerProofs` |
| `PaidOutLate`, `SlotAlwaysSound`, `StaysAlwaysCountedOnce` | `[]ReleasedLate`, `[]ActiveSlotSound`, `[]StaysCountedOnce` | `StaykeLedgerProofs` |
| `VaultAlwaysMatches`, `ReviewsAlwaysTally` | `[]VaultMatchesDeposits`, `[]ReviewsTally` | `StaykeLedgerProofs` |
| `DatesAlwaysCivil`, `MasksAlwaysHoldStays`, `AlwaysDecidedByDays` | `[]DatesCivil`, `[]MasksHoldStays`, `[]DecidedByDays` | `CalendarProofs` |
| `CalendarKeepsBook` | `KeepsBook` | `CalendarProofs` |
| `SessionsTypeCorrect`, `FilledAlwaysFinal` | `[]SessionsTypeOK`, `[]FilledFromFinal` | `ClientRuleProofs` |
| `OrderSuffices` | `[]OrderedDefaults` | `ClientRuleProofs` |
| `EntriesAlwaysClosed`, `RoundTripAlways` | `[]EntriesClosed`, `[]RoundTrip` | `ClientRuleProofs` |
| `MoneyNeverOrphaned` | `[]NoOrphans` | `ClientRuleProofs` |
| `PrivilegesAlwaysSuffice` | `[]PrivilegesSuffice` | `ClientRuleProofs` |
| `StaysNeverMixed` | `[]OneStay` | `ClientStayProofs` |
| `RefusedAlways` | `[]RefusedOnlyIfOvertaken` | `ClientHonestProofs` |

**Types.** `TypeCorrect` is arithmetic: no balance becomes negative. It rests on lemmas that a
percentage of an amount is at most the amount (`PercentBounds`, `BasisPointsBounds`), that each split
adds up (`InsideWindowSplitExact`, `ReleaseSplitExact`, `DisputeSplitExact`), and one lemma per
action.

**The inductive invariant.** `EscrowBacked` is not inductive: restoring a status is unguarded in
`cpi_update_booking_status`, so one must know that a dispute that can be withdrawn has a frozen
booking. `DisputeCoupled` says so, and both need types:
`Custodial == TypeOK /\ DisputeCoupled /\ EscrowBacked` is inductive. Each transaction is first summed
up as one move of one booking, whose status and escrow change together (`Takes`), in a way that
leaves disputes alone (`Moves`) or together with its dispute (`Settles`, `Decides`); the withdrawal of a
dispute with another booking is a summary of its own (`Crosses`), of two bookings. `NextAdvances` says
that under `Custodial` every step of `Next` is one of these (`Advance`), and the other proofs of the
programs start from there. `DisputeCoupled` has to say what becomes of the two bookings that a crossed
withdrawal confused, or it would not be inductive: it is what later steps find of them.

**What follows from it.**

* *Custody* maps a status to a phase (`Phase`) and each of the summaries to a step of
  `BookingCustody` or a stutter. That frozen money rests and settled bookings stay settled follows
  from the same summaries, the latter with the fact that a check-out is only written by a request.
* *Calendar*: a step takes the days of one booking (`TakesDays`), frees those of one (`FreesDays`) or
  leaves them (`LeavesDays`), or restores one with another's dispute (`StraysWithDays`). That freed days
  belong to no other booking is `CalendarExact` itself.
* *Payout* strengthens `ReleasedLate` to `Timely`: a completed booking, and one that is frozen and
  will be completed again, was completed no earlier than its check-out.
* *Slots* are cleared by anybody's release, but set by one action only (`SlotStep`).
* *Counted stays* compare cardinalities: each step counts no stay, or one that was not counted before,
  for its guest and its host (`CountStep`). It assumes a finite set of bookings.
* *Sums*: `FiniteSums` gives the library's folds what the prover lacks. That a sum over a finite set
  is what it is over the set less an element, plus that element's value, is proved by induction along
  proper subsets, for one fixed function at a time; from it follow the sums of an update, of zeros
  and of two functions that agree. The vault is compared with the
  record step by step (`RecordKept`), up to the first fault.
* *Dates*: the civil side is brought into closed form first. The count of leap years and the sum of
  month lengths are proved by induction (`LeapsCounted`, `DaysBeforeMonths`, over the members of one
  fixed set, `NatInductionIn`), and the number of a date grows with the date (`DatesInOrder`). Then
  `derive_date`: a day of an era of 400 years is so many centuries, spans of four years, years and days
  (`EraYear`), its quotients are that number of years and 153-day spans of five months (`YearOfEra`,
  `MarchMonths`), and what is left over is a civil date with the number it was derived from
  (`DatesConverted`). So two moments are in the order of their dates.
* *Masks*: a mask holds the days whose number lies between check-in and check-out, and of the Februaries
  without a 29th also that day when the stay goes on after the 28th (`HeldByNumber`, `HeldOtherwise`). No
  two stays share a day in the masks, then, unless they share one of the calendar, and a shared 29th means
  a shared 28th. That makes `Kept` inductive: each mask is the union of what its stays hold, the stays
  have their accounts, and no day is in two of them. `DatesCivil` needs it too, for the accounts bound the years
  it speaks of.
* *Refinement of the days*: each helper is the step of `Availability` on `DaysTaken`, its conditions by
  `DecidedByDays`, its effect by `MasksHoldStays` of the state it leads to.
* *Clients, filling in*: `FillInv` says of a builder half way that what it has filled in derives from accounts
  that are known and will not change. The proofs use of the builders only `RequestAssumption` (one
  default an account, no key pair, read off accounts of the instruction; a synchronous builder has none
  that the plugin's has not), which TLC evaluates for all of them.
  `OrderSuffices` assumes that no default reads an account filled in after it; that the builders'
  own order is enough is what the run `clients` checks.

* *Clients, tables*: builders, parsers and rules are data, so facts on all instructions are proved
  entry by entry: one lemma an instruction, in a form that names the table only once, and one lemma a
  package that collects them. `EntriesClosed`: an entry for other programs demands an authority that
  is derived, whatever the caller gives for it, and a derived address cannot sign. `RoundTrip`: the
  identifier of a program's plugin is the inverse of its discriminators (`SameInstruction`), and its
  parser lists the names in the order of the builder (`SameOrder`).
* *Clients, money*: `Backed` is `NoOrphans` with a fact it needs: every escrow token account in the
  store lies at the address derived from its booking, and the booking is in the store. It is
  preserved because an instruction either touches neither (`Calm`), closes the money together with
  the booking or before it (`Returning`), or creates the money at the address of a booking that it
  creates as well (`Placing`); which of these, and that nothing else creates or closes either, is
  read off the rules of each instruction. That an account *is* a booking is known by the rule that
  types it; an account that several rules name is followed by its seeds. The accounts may be any
  that callers mix up, also the same one under two names.
* *Clients, privileges*: three facts meet. The table of each instruction asks for the privileges its
  rules demand, but for the payer of a plain rejection, and asks for a signature only under a name that
  stands for a wallet and has no default (`Entitled`). An honest caller gives under such a name an
  address with a key pair, and leaves no account that is written without an address: he gives it, or a
  default derives it (`HonestTable`). And a default never derives a key pair, so that what the wallets
  sign is what was given. The one exception is an equivalence: the payer of a plain rejection is
  writable just when it is the fee payer, since nothing else that its client asks to write has a key
  pair (`Rejecting`).
* *Clients, stays*: each rule of an instruction on a booking is of one of four kinds. It binds an
  account of no stay (`Aloof`: wallets, programs, the platform's accounts), a profile that the booking
  holds (`OfParty`), what is derived from the booking's address or held in it (`OfBooking`), or what is
  derived from the owner of a profile that another rule of the instruction binds to the booking
  (`OfOwner`); `EscrowJoined` and `DisputesJoined` sort the tables, instruction by instruction, and
  `JoinedStay` draws the conclusion. So whatever callers mix up, all accounts are of the stay of the
  one booking among them. A creation has no booking to start from: there the new address holds the
  listing, the guest and the check-in, and `CreationStay` compares the others with it. `OneStay`
  excepts what `LeftFree` names. One more account is bound by no rule of the escrow, the `treasuryPda`
  of a host's cancellation, and it is the same for every stay: callers who mix up stays leave it alone
  (`AuthorityGiven`).
* *Clients, places*: every account that a caller can mean has a place, an address written down from the
  parties of a stay, its listing and its check-in (`MeantAt`, read off `Belongings` and `Means`). Rules
  and defaults are then compared through that place and not with each other. One lemma a package, with
  a step for each kind of rule and default and then one for each instruction, says that accounts in
  their places are what the rules demand (`Seated`) and what the defaults derive, but for the divergent
  ones (`Sound`). Every account a rule places is one the caller looks for before he asks (`RequestSeen`), so
  what he saw, while it is still so (`Timely`), gives each account the life its rule asks for
  (`MeantInPlace`). That an honest caller's table ends as what he means is no induction over the
  loop: when filling in is done each account is what its default derives from the final table, and
  the defaults come in four layers, what is given, profiles, the booking and the rest, each of which reads
  the ones before (`Layered`, `MeantTable`). In the other direction, each of the four divergent
  defaults derives from other seeds or under another program than the rule, whatever the other
  accounts are (`DaysDiverge`, `ProfileDiverges`), so its account is never in place
  (`DivergentRefused`).

`Callers` takes what a caller means from the first of several functions that knows a name
(`FirstOf`), and `RequestAssumption` is all that is used of how the builders of one default differ.

**Model-checked only.** Liveness (`RequestsAnswered`, `StaysSettle`, `DisputesProgress`), which is beyond
the prover. And that the builders' own order satisfies the hypothesis of `OrderSuffices`: the run `clients`
checks it for every request of its instance. Every invariant of a passing run is stated by a theorem.

## 6. Not modelled

* Codecs of accounts, arguments and events, error tables and event types of the packages: encodings
  without control of their own.
* Lending in the treasury: its entry points are commented out.
* The amount that `withdraw_fees` takes out of the platform vault (its accounts and privileges are
  modelled), and changes of the values in `GlobalConfig`, which no instruction makes.
* The flags `is_active` and `is_occupied` of listings, which no instruction reads.
* Accounts that the programs leave to the caller: payers, the token account a withdrawal goes to, the
  treasury authority that a host's cancellation passes on, the host profile of a start, the dispute of a
  withdrawal, and of a verdict without fault the `guiltyReputation` and the `escrowTokenAccount`. The clients'
  sessions contain them, and no property binds them.
* That a transfer debits what it credits, and debits nobody without the owner's signature, is guaranteed by
  the token program whatever the programs here compute: balances follow these rules, and no property
  states them.
* Deployment and tests. Anchor, the token program, the runtime and the clock are external, and so are
  the callers of the packages.

## 7. Plan

Done in order: profiles, treasury, calendar as a set, escrow, disputes, composition, abstract
custody; types and escrow backing proved. Then the clients with the account rules of the programs,
the calendar as masks, and the theorems on the programs, on the clients' tables and their defaults and
on the calendar.

Left:

1. A `platform` that `withdraw_fees` empties.
2. `Listings`: changes of price and publication between a request and its payment.
