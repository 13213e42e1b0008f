\* Two orders, two pools; messages lost, repeated and late; one report, or three while the rival has not begun.
SPECIFICATION MCSpec
CONSTANTS
  None = None
  goods = goods
  transport = transport
  order = order
  rival = rival
  l1 = l1
  l2 = l2
  l3 = l3
  l4 = l4
  q1 = q1
  q2 = q2
  q3 = q3
  q4 = q4
  q5 = q5
  Pool = {goods, transport}
  Coordination = {order, rival}
  Leg = {l1, l2, l3, l4}
  Quote = {q1, q2, q3, q4, q5}
  MaxTime = 1
  Reports <- MCReports
  Capacity <- MCCapacity
  Terms <- MCTerms
  Booking <- MCBooking
  Plan <- MCPlan
  Offered <- MCOffered
INVARIANTS NoOvercommit OutcomeTrue DeliveredOnce
PROPERTY Finishes
CHECK_DEADLOCK FALSE
