SPECIFICATION Spec
CONSTANTS
    Users = {ann, bob}
    Prices = {1, 2}
    Quantities = {1, 2}
    MaxOrders = 4
SYMMETRY Symmetry
PROPERTIES
    TradesExplainBook
    ImplementsExchange
CHECK_DEADLOCK FALSE
