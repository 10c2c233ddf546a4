----------------------- MODULE PaymentMethodValidation -----------------------
(***************************************************************************)
(* PaymentMethodValidationService.  The code compares names of methods and *)
(* channels as text without regard to case; here a name is the sequence of *)
(* its words and separators other than the blank.                          *)
(***************************************************************************)
EXTENDS Naturals, Sequences, SequencesExt

\* A channel of a biller, as far as the service looks at it.
UpayPaymentChannel ==
    [code : Seq(STRING), name : Seq(STRING), isEnabled : BOOLEAN, isAvailed : BOOLEAN]

DebitCredit == <<"DEBIT", "/", "CREDIT">>
Paygate == <<"PAYGATE">>

UPAY_PAYMENT_METHODS ==
    {DebitCredit, <<"UB", "ONLINE">>, <<"INSTAPAY">>, <<"INSTAPAY", "P2B">>, Paygate,
     <<"GCASH">>, <<"GRABPAY">>, <<"BAYAD", "_", "CENTER">>, <<"CEBL">>, <<"ECPAY">>,
     <<"PLWN">>, <<"MLH">>, <<"SMR">>, <<"RDS">>}

\* Every method is the code of a channel; some channels have further codes.
PAYMENT_METHOD_TO_CHANNEL_CODE == [method \in UPAY_PAYMENT_METHODS |->
    {method} \cup
        CASE method = DebitCredit -> {<<"VISA", "/", "MASTERCARD">>}
          [] method = <<"UB", "ONLINE">> -> {<<"UNIONBANK", "ONLINE">>}
          [] method = <<"INSTAPAY", "P2B">> -> {<<"INSTAPAY", "_", "P2B">>}
          [] method = Paygate -> {<<"PCHC", "PAYGATE">>, <<"PESONET">>}
          [] method = <<"BAYAD", "_", "CENTER">> -> {<<"BAYAD", "CENTER">>}
          [] OTHER -> {}]

Includes(name, part) ==
    \E i \in 0 .. Len(name) - Len(part) : part = SubSeq(name, i + 1, i + Len(part))

Exact(channel, method) ==
    \E code \in PAYMENT_METHOD_TO_CHANNEL_CODE[method] : code \in {channel.code, channel.name}

Loose(channel, method) ==
    \/ method \in {channel.code, channel.name}
    \/ Includes(channel.name, method)
    \/ Includes(method, channel.name)

\* Mutant of findMatchingChannel: one loop accepts either match.
findMatchingChannelOneLoop(channels, method) ==
    SelectInSeq(channels, LAMBDA c : Exact(c, method) \/ Loose(c, method))

\* The position of the channel that is found, 0 for none: a loop for each kind of match.
findMatchingChannel(channels, method) ==
    LET exact == SelectInSeq(channels, LAMBDA c : Exact(c, method))
    IN  IF exact # 0 THEN exact ELSE SelectInSeq(channels, LAMBDA c : Loose(c, method))

validateAgainstBillerChannels(channels, method) ==
    LET found == findMatchingChannel(channels, method)
    IN  CASE channels = <<>> -> "NO_CHANNELS_CONFIGURED"
          [] channels # <<>> /\ found = 0 -> "METHOD_NOT_FOUND"
          [] found # 0 /\ ~channels[found].isEnabled -> "METHOD_NOT_ENABLED"
          [] found # 0 /\ channels[found].isEnabled /\ ~channels[found].isAvailed
                -> "METHOD_NOT_AVAILED"
          [] OTHER -> "valid"

\* billers is what the bank answers: the channels of each of its billers.
validatePaymentMethod(billers, method) ==
    IF billers = <<>> THEN "NO_CHANNELS_CONFIGURED"
    ELSE validateAgainstBillerChannels(billers[1], method)
=============================================================================
