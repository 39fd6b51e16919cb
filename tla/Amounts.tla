------------------------------- MODULE Amounts -------------------------------
(***************************************************************************)
(* Money: the price of an order's lines in the order service, and what the *)
(* receipt mails print of it.  Amounts are integers from -Half to Half - 1 *)
(* in the smallest unit of the currency; the code's are 64 bits wide, so   *)
(* that Half is 2^63 there, and checked for overflow nowhere.              *)
(***************************************************************************)
EXTENDS Integers, Sequences, SequencesExt

CONSTANT Half  \* half the number of integers

ASSUME HalfAssumption == Half \in Nat \ {0}

Amount == -Half .. Half - 1

\* The integer that a sum, product or negation comes to.
Wrap(n) == ((n + Half) % (2 * Half)) - Half

AddUp(amounts) ==
    FoldLeft(LAMBDA sum, amount : Wrap(sum + amount), 0, amounts)

\* The currencies a catalog row may name, and their upper and lower case.
Upper == [usd |-> "USD", USD |-> "USD", jpy |-> "JPY", JPY |-> "JPY"]
Lower == [usd |-> "usd", USD |-> "usd", jpy |-> "jpy", JPY |-> "jpy"]

LineAmount(line) == Wrap(line.price * line.quantity)

Total(lines) == AddUp([i \in DOMAIN lines |-> LineAmount(lines[i])])

-----------------------------------------------------------------------------
\* Reasons for which a list of items is no order.  rows has the catalog's row
\* for every product that was found.
Refused(items, rows) ==
    \/ items = <<>>
    \/ \E i \in DOMAIN items :
          \/ items[i].product \notin DOMAIN rows
          \/ ~rows[items[i].product].active
          \/ items[i].quantity < 1
    \/ \E i, j \in DOMAIN items :
          Upper[rows[items[i].product].currency]
             # Upper[rows[items[j].product].currency]

\* The lines of an order: a snapshot of the catalog's prices.
OrderLines(items, rows) ==
    [i \in DOMAIN items |->
        [product |-> items[i].product, quantity |-> items[i].quantity,
         price |-> rows[items[i].product].price]]

ResolveItems(items, rows) ==
    LET lines == OrderLines(items, rows) IN
    [lines |-> lines, total |-> Total(lines),
     currency |-> Upper[rows[Head(items).product].currency]]

\* A cart is priced as it is looked at; lines that cannot be bought are left
\* out, and currencies are not compared.
CartView(items, rows) ==
    LET offered(item) == item.product \in DOMAIN rows
                         /\ rows[item.product].active
        lines == OrderLines(SelectSeq(items, offered), rows)
    IN [lines |-> lines, total |-> Total(lines)]

-----------------------------------------------------------------------------
ZeroDecimal == {"JPY"}
Symbol == [USD |-> "$", JPY |-> "Y"]

\* The groups of three digits between the commas.
Thousands(n) ==
    LET groups[m \in 0..n] ==
          IF m < 1000 THEN <<m>> ELSE Append(groups[m \div 1000], m % 1000)
    IN groups[n]

\* "-$1,500.25" is [negative |-> TRUE, minus |-> FALSE, symbol |-> "$",
\* groups |-> <<1, 500>>, cents |-> <<25>>].  The least integer is its own
\* negation, so its digits, and its cents, come with a minus of their own.
FormatAmount(amount, currency) ==
    LET code == Upper[currency]
        size == IF amount < 0 THEN Wrap(-amount) ELSE amount
        digits == IF size < 0 THEN -size ELSE size
        whole == code \in ZeroDecimal
    IN [negative |-> amount < 0,
        minus |-> size < 0,
        symbol |-> Symbol[code],
        groups |-> Thousands(IF whole THEN digits ELSE digits \div 100),
        cents |-> IF whole THEN <<>> ELSE <<digits % 100>>]

\* What a reader takes the printed amount for, who looks at the first sign.
Value(groups) == FoldLeft(LAMBDA n, group : 1000 * n + group, 0, groups)

ReadAmount(printed) ==
    LET whole == Value(printed.groups)
        digits == IF printed.cents = <<>> THEN whole
                  ELSE 100 * whole + printed.cents[1]
    IN IF printed.negative THEN -digits ELSE digits

-----------------------------------------------------------------------------
\* The data of a receipt template before it is built.
ReceiptData(event, items) ==
    [amount |-> event.amount, currency |-> event.currency, items |-> items,
     lines |-> <<>>, subtotal |-> <<>>, total |-> <<>>]

PrintedLines(data) ==
    [i \in DOMAIN data.items |->
        FormatAmount(data.items[i].amount, data.currency)]

\* Variant of BuildReceiptData: the lines are replaced in any case.
BuildReceiptDataAfresh(data) ==
    [data EXCEPT !.items = <<>>, !.lines = PrintedLines(data),
       !.total = <<FormatAmount(data.amount, data.currency)>>]

\* Formats the items into lines and drops the items.  What an earlier call has
\* formatted stays when there is nothing to format.
BuildReceiptData(data) ==
    LET subtotal == AddUp([i \in DOMAIN data.items |-> data.items[i].amount])
        built == [data EXCEPT !.items = <<>>,
                    !.total = <<FormatAmount(data.amount, data.currency)>>]
    IN IF data.items = <<>> THEN built
       ELSE [built EXCEPT
               !.lines = PrintedLines(data),
               !.subtotal = <<FormatAmount(subtotal, data.currency)>>]

\* SendReceipt builds the data, and renderReceipt builds it once more.
Receipt(event, items) == BuildReceiptData(BuildReceiptData(ReceiptData(event, items)))

\* The items of a receipt are the order's lines, when they could be fetched.
ReceiptItems(lines) ==
    [i \in DOMAIN lines |-> [amount |-> LineAmount(lines[i])]]

\* The status mail prints the amounts of its event, the total if it is positive.
StatusMail(event) ==
    [lines |-> [i \in DOMAIN event.items |->
                  FormatAmount(event.items[i].amount, event.currency)],
     subtotal |-> <<>>,
     total |-> IF event.total > 0
               THEN <<FormatAmount(event.total, event.currency)>> ELSE <<>>]
=============================================================================
