------------------------------ MODULE SwapLogs ------------------------------
(***************************************************************************)
(* getSwaps() of EthereumConnection: by a filter, from the event logs of   *)
(* the Ether and the ERC-20 swap contract, or by ID, from the contract.    *)
(*                                                                         *)
(* Event data and the answer of get() are sequences of 32 byte words.  The *)
(* logs of the two contracts are asked for at once and answered at times   *)
(* of their own; a swap of one contract may have the ID of a swap of the   *)
(* other.  Every log is in a block of its own.                             *)
(***************************************************************************)
EXTENDS Naturals, Sequences, FiniteSets, SequencesExt, Sublists

CONSTANTS
  SwapIds,      \* SwapIds[p]: bytes of the IDs used on contract p
  Offers,       \* what swaps are opened with
  Erc20Tokens,  \* addresses of the tokens the connection was configured with
  Checksummed,  \* those of them that were configured in checksummed form, the
                \* form of Abi.decodeAddress(); the others differ from it in the
                \* case of letters
  Filters,      \* queries by recipient
  MinHeights    \* minHeight of the queries

ASSUME SwapLogsAssumption ==
  /\ DOMAIN SwapIds = {"ether", "erc20"}
  /\ \A o \in Offers : DOMAIN o = {"sender", "recipient", "hash", "amount", "timeout", "token"}
  /\ Checksummed \subseteq Erc20Tokens
  /\ MinHeights \subseteq Nat

VARIABLES
  logs,         \* logs[p]: the events of contract p
  filtered      \* a getSwaps() call with a filter

swapLogVars == <<logs, filtered>>

Prefix == {"ether", "erc20"}
NotAnswered == <<[topic |-> "not answered"]>>

NoFilterCall == [step |-> "none", recipient |-> "", min |-> 0,
                 answers |-> [p \in Prefix |-> NotAnswered], result |-> <<>>]

SwapLogInit ==
  /\ logs = [p \in Prefix |-> <<>>]
  /\ filtered = NoFilterCall
-----------------------------------------------------------------------------
(* The contracts: the words of their events and of get(), as the ABI        *)
(* signatures in the code have them.                                        *)
OpenedData(p, id, o) ==
  <<id, o.sender, o.recipient, o.hash, o.amount, o.timeout>> \o (IF p = "erc20" THEN <<o.token>> ELSE <<>>)

ClaimedData(id, o) == <<id, <<"preimage of", o.hash>>>>

(* Where the events of a swap are among some events of its contract. *)
EventsOf(id, history) == {n \in DOMAIN history : history[n].data[1] = id}
LastEvent(id, history) ==
  IF EventsOf(id, history) = {} THEN "none" ELSE history[Max(EventsOf(id, history))].topic
OfferIn(id, history) == history[Min(EventsOf(id, history))].offer

OfferOf(p, id) == OfferIn(id, logs[p])

Emit(p, l) == logs' = [logs EXCEPT ![p] = Append(@, l)] /\ UNCHANGED filtered

ContractOpens(p, id, o) ==
  /\ LastEvent(id, logs[p]) = "none"
  /\ Emit(p, [topic |-> "opened", data |-> OpenedData(p, id, o), offer |-> o])

ContractSettles(p, id) ==
  /\ LastEvent(id, logs[p]) = "opened"
  /\ LET o == OfferOf(p, id)
     IN \/ Emit(p, [topic |-> "claimed", data |-> ClaimedData(id, o), offer |-> o])
        \/ Emit(p, [topic |-> "aborted", data |-> <<id>>, offer |-> o])

(* get(bytes32): the number of the state follows the preimage. *)
GetWords(p, id) ==
  LET o == OfferOf(p, id)
      state == LastEvent(id, logs[p])
  IN <<o.sender, o.recipient, o.hash, o.timeout, o.amount,
       IF state = "claimed" THEN ClaimedData(id, o)[2] ELSE <<>>,
       CASE state = "opened" -> 1 [] state = "claimed" -> 2 [] state = "aborted" -> 3>>
     \o (IF p = "erc20" THEN <<o.token>> ELSE <<>>)
-----------------------------------------------------------------------------
EthSwap(kind, p, id, sender, recipient, hash, amount, timeout, token, preimage) ==
  [kind |-> kind, prefix |-> p, id |-> id, sender |-> sender, recipient |-> recipient, hash |-> hash,
   amount |-> amount, timeout |-> timeout, token |-> token, preimage |-> preimage]

(* Both addresses are taken in lower case. *)
Tracked(p, token) == p = "ether" \/ token \in Erc20Tokens

parseOpenedEventBytes(bytes, p) ==
  EthSwap("open", p, bytes[1], bytes[2], bytes[3], bytes[4], bytes[5], bytes[6],
         IF p = "ether" THEN "ETH" ELSE bytes[7], <<>>)

(* Mutant: IDs are compared without their prefix. *)
updateSwapInListMutant(swaps, kind, p, id, preimage) ==
  LET i == SelectInSeq(swaps, LAMBDA s : s.id = id)
  IN IF i = 0 THEN swaps
     ELSE Append(RemoveAt(swaps, i), [swaps[i] EXCEPT !.kind = kind, !.preimage = preimage])

(* A swap that is claimed or aborted moves to the end of the list. *)
updateSwapInList(swaps, kind, p, id, preimage) ==
  LET i == SelectInSeq(swaps, LAMBDA s : s.id = id /\ s.prefix = p)
  IN IF i = 0 THEN swaps
     ELSE Append(RemoveAt(swaps, i), [swaps[i] EXCEPT !.kind = kind, !.preimage = preimage])

(* One step of the reduction over the logs. *)
ReduceLog(swaps, log, p) ==
  CASE log.topic = "opened" ->
         IF Tracked(p, log.data[Len(log.data)]) THEN Append(swaps, parseOpenedEventBytes(log.data, p)) ELSE swaps
    [] log.topic = "claimed" -> updateSwapInList(swaps, "claimed", p, log.data[1], log.data[2])
    [] log.topic = "aborted" -> updateSwapInList(swaps, "aborted", p, log.data[1], <<>>)

(* getSwapsWithFilter(): the Ether logs, then the ERC-20 logs; the filter   *)
(* comes last.                                                              *)
ReduceLogs(swaps, history, p) ==
  LET upTo[n \in 0 .. Len(history)] == IF n = 0 THEN swaps ELSE ReduceLog(upTo[n - 1], history[n], p)
  IN upTo[Len(history)]

MergeLogs(answers, recipient) ==
  LET all == ReduceLogs(ReduceLogs(<<>>, answers["ether"], "ether"), answers["erc20"], "erc20")
  IN Those(all, {s \in ToSet(all) : s.recipient = recipient})

CallFiltered(recipient, min) ==
  /\ filtered.step # "called"
  /\ filtered' = [NoFilterCall EXCEPT !.step = "called", !.recipient = recipient, !.min = min]
  /\ UNCHANGED logs

(* eth_getLogs from minHeight on. *)
getSwapLogs(p, min) == SubSeq(logs[p], min + 1, Len(logs[p]))

(* One of the requests is answered; the second answer gives the result.     *)
LogsAnswered(p) ==
  /\ filtered.step = "called"
  /\ filtered.answers[p] = NotAnswered
  /\ LET answers == [filtered.answers EXCEPT ![p] = getSwapLogs(p, filtered.min)]
     IN filtered' = IF \E q \in Prefix : answers[q] = NotAnswered
                    THEN [filtered EXCEPT !.answers = answers]
                    ELSE [filtered EXCEPT !.answers = answers, !.step = "done",
                                          !.result = MergeLogs(answers, filtered.recipient)]
  /\ UNCHANGED logs

(* getSwapsById(): the address is compared as it was configured.  A token   *)
(* that is not found so gives an amount of Ether.                           *)
getSwapsById(p, id) ==
  LET words == GetWords(p, id)
      kind == CASE words[7] = 1 -> "open" [] words[7] = 2 -> "claimed" [] words[7] = 3 -> "aborted"
  IN EthSwap(kind, p, id, words[1], words[2], words[3], words[5], words[4],
            IF p = "erc20" /\ words[8] \in Checksummed THEN words[8] ELSE "ETH",
            IF kind = "claimed" THEN words[6] ELSE <<>>)

SwapLogNext ==
  \/ \E p \in Prefix : \E id \in SwapIds[p] :
       (\E o \in Offers : ContractOpens(p, id, o)) \/ ContractSettles(p, id)
  \/ \E recipient \in Filters, min \in MinHeights : CallFiltered(recipient, min)
  \/ \E p \in Prefix : LogsAnswered(p)

SwapLogSpec == SwapLogInit /\ [][SwapLogNext]_swapLogVars
-----------------------------------------------------------------------------
(* What getSwaps() should give for a swap after some of the events. *)
Expected(p, id, history) ==
  LET o == OfferIn(id, history)
      last == LastEvent(id, history)
  IN EthSwap(IF last = "opened" THEN "open" ELSE last, p, id, o.sender, o.recipient, o.hash, o.amount, o.timeout,
             IF p = "ether" THEN "ETH" ELSE o.token, IF last = "claimed" THEN <<"preimage of", o.hash>> ELSE <<>>)

ExpectedOf(p, history, recipient) ==
  LET opened == {l.data[1] : l \in {m \in ToSet(history) : m.topic = "opened" /\ Tracked(p, m.offer.token)
                                                         /\ m.offer.recipient = recipient}}
  IN {Expected(p, id, history) : id \in opened}

(* A filtered getSwaps() gives every swap of a known token that was opened  *)
(* in the range once, with the terms of its offer and in the state its      *)
(* contract had when the logs were read, although the other contract uses   *)
(* the same IDs and claims of swaps out of the range are among the logs.    *)
FilteredSwaps ==
  filtered.step = "done" =>
    /\ IsInjective(filtered.result)
    /\ ToSet(filtered.result) =
         UNION {ExpectedOf(p, filtered.answers[p], filtered.recipient) : p \in Prefix}

(* By its ID a swap of a known token has the same terms and state as by a   *)
(* filter, although the words of the two answers differ in order.  The      *)
(* token is the same only for Ether and for tokens that were configured in  *)
(* checksummed form: by its ID a swap of any other token is said to be      *)
(* about Ether, such as of the tokens that testconfig.spec.ts:375 and 383   *)
(* configure in lower case.                                                 *)
IdAgreesWithLogs ==
  \A p \in Prefix : \A id \in SwapIds[p] :
    LastEvent(id, logs[p]) # "none" /\ Tracked(p, OfferOf(p, id).token) =>
      LET byId == getSwapsById(p, id)
          byLogs == Expected(p, id, logs[p])
      IN /\ [byId EXCEPT !.token = byLogs.token] = byLogs
         /\ p = "ether" \/ OfferOf(p, id).token \in Checksummed => byId.token = byLogs.token

(* Both forms of getSwaps() tell what the contracts have done.              *)
SwapsAreTrue == FilteredSwaps /\ IdAgreesWithLogs
=============================================================================
